---- MODULE Spec2Model ----
(***************************************************************************)
(* A model of the NOAA archive crawler (src/src/crawling/                  *)
(* noaa_complete_crawler.py and its batch driver src/src/crawl_all_years.py)*)
(* as a state machine: the crawl of years, cyclones and advisory files,    *)
(* the page fetcher with its meta-refresh handling, and the year-index     *)
(* parser.                                                                 *)
(***************************************************************************)
EXTENDS Integers, Sequences, FiniteSets, TLC

\* ---------------------------------------------------------------- bounds
\* Number of years handed to crawl_years.
MaxYears == 2
\* Largest number of cyclone records a year page yields.
MaxCyc == 2
\* Number of advisory links of a linked product kind on a detail page.
MaxUrls == 1
\* Number of crawl runs in one behaviour.
MaxRuns == 2

\* ------------------------------------------------------------- constants
\* DATA_TYPES, in the order the dict is iterated.
DATA_TYPES == <<"fstadv", "public", "discus", "wndprb">>

KindIdx == 1..Len(DATA_TYPES)

Years == 1..MaxYears

\* What an advisory URL serves: an HTML page with a non-empty <pre> block,
\* an HTML page without one, a bare text product, or an empty body.
BodyKinds == <<"pre", "nopre", "plain", "empty">>

ZeroStats == [years_processed |-> 0, cyclones_processed |-> 0, files_downloaded |-> 0, files_failed |-> 0]

NoUrl == [y |-> 0, c |-> 0, k |-> 0, i |-> 0]

NoFile == [dir |-> NoUrl, name |-> 0, ext |-> "none"]

\* ------------------------------------------------------ the archive site
\* The pages of the archive: the year pages (c = 0), the detail pages
\* (k = 0) and the advisory products.
Url(y, c, k, i) == [y |-> y, c |-> c, k |-> k, i |-> i]

\* The number of cyclones on the page of year y: the years differ, and one
\* of them has none.
CyclonesOf(w, y) == (y + w.rot) % (MaxCyc + 1)

\* The product kinds a detail page links: two of the four, which two
\* depending on the cyclone.
Linked(c, k) == (c + k) % 2 = 0

Pages ==
    {Url(y, 0, 0, 0) : y \in Years}
    \cup {Url(y, c, 0, 0) : y \in Years, c \in 1..MaxCyc}
    \cup {Url(y, c, k, i) : y \in Years, c \in 1..MaxCyc, k \in KindIdx, i \in 1..MaxUrls}

\* The archive sites of the model: which year has how many cyclones (rot),
\* which product serves which kind of body (shift), and the one page, if
\* any, whose requests may fail (flaky).
Webs == [rot : 0..MaxCyc, shift : 0..3, flaky : Pages \cup {NoUrl}]

VARIABLES
    web,        \* the archive site, unchanged during a behaviour
    files,      \* the output tree: path -> content
    stats,      \* NOAACompleteCrawler.stats
    run,        \* number of the crawl run
    pc,         \* position of the crawl
    yi,         \* index of the year being crawled
    ncyc,       \* len(cyclones) of the year being crawled
    ci,         \* index of the cyclone being crawled
    advisories, \* result of get_cyclone_advisories for the cyclone
    ki,         \* index of the product kind in DATA_TYPES
    ui,         \* index of the URL within the kind
    save_path,  \* destination path of the download in progress
    content,    \* text_content of the download in progress
    ret,        \* value download_advisory returned
    hist,       \* history of the run, kept for the properties
    fetch,      \* a call of fetch_page: the site, the frames, the requests
    parse,      \* a call of get_year_cyclones: the page and the records
    download,   \* a call of download_advisory: the body, the path, the files written
    resolve,    \* a call of get_cyclone_advisories: the detail page and the mapping
    matcher,    \* CycloneMatcher: the directory tree, the track table, the rows
    tracks,     \* a call of _calculate_storm_movement: the table and its columns
    bearing,    \* a call of _calculate_bearing: the angle and the direction
    iem         \* a call of crawl_products_by_date_range: the dates and the requests

crawlVars == <<web, files, stats, run, pc, yi, ncyc, ci, advisories, ki, ui, save_path, content, ret, hist>>

unitVars == <<download, resolve, matcher, tracks, bearing, iem>>

vars == <<crawlVars, fetch, parse, unitVars>>

\* The functions examined alone, not called.
Idle == [pc |-> "idle"]

UnitIdle ==
    /\ download = Idle
    /\ resolve = Idle
    /\ matcher = Idle
    /\ tracks = Idle
    /\ bearing = Idle
    /\ iem = Idle

\* The body an advisory URL serves.
BodyOf(u) == BodyKinds[((u.c + u.k \div 2 + u.i + web.shift) % 4) + 1]

\* A request of page u may raise a transport error.
MayFail(u) == u = web.flaky

\* ------------------------------------------------------- paths and files
\* save_dir / filename: output_dir / year / basin / cyclone_name / full_name
\* and the last URL segment with .shtml replaced by .txt.
SavePath(u) == [dir |-> [u EXCEPT !.i = 0], name |-> u.i, ext |-> "txt"]

\* save_path.with_suffix('.html')
WithSuffixHtml(p) == [p EXCEPT !.ext = "html"]

\* What open(save_path, 'w') leaves before anything is written.
Truncated == [url |-> NoUrl, form |-> "empty"]

\* download_advisory, from the fetched body to what is saved: a bare text
\* product verbatim, the largest <pre> block of an HTML page, or the whole
\* HTML document.
TextContent(u) ==
    CASE BodyOf(u) = "plain" -> [url |-> u, form |-> "verbatim"]
      [] BodyOf(u) = "pre" -> [url |-> u, form |-> "pre"]
      [] OTHER -> [url |-> u, form |-> "html"]

\* download_advisory: the path written, the .html suffix forced when the
\* HTML body has no <pre> text.
FinalPath(u, p) == IF BodyOf(u) \in {"plain", "pre"} THEN p ELSE WithSuffixHtml(p)

\* get_year_cyclones as crawl_year sees it: the number of records, none when
\* the year page cannot be fetched.
YearCyclones(y, ok) == IF ok THEN CyclonesOf(web, y) ELSE 0

\* get_cyclone_advisories: the empty mapping when the detail page cannot be
\* fetched, else the sorted links of each product kind.
get_cyclone_advisories(y, c, ok) ==
    IF ok
    THEN [k \in KindIdx |-> [i \in 1..(IF Linked(c, k) THEN MaxUrls ELSE 0) |-> Url(y, c, k, i)]]
    ELSE <<>>

\* advisories.get(short_name, [])
UrlsOf(k) == IF k \in DOMAIN advisories THEN advisories[k] ELSE <<>>

CurUrl == UrlsOf(ki)[ui]

Write(f, p, v) == [q \in DOMAIN f \cup {p} |-> IF q = p THEN v ELSE f[q]]

\* The history of a run: what was listed, resolved, requested and skipped.
NewHist(prevClean, prevFailed, start, succ, falses) ==
    [seenYears |-> {}, listed |-> {}, seenCyc |-> {}, resolved |-> {},
     requested |-> {}, skipped |-> {}, failed |-> {}, clean |-> TRUE,
     prevClean |-> prevClean, prevFailed |-> prevFailed,
     startStats |-> start, successes |-> succ, falses |-> falses,
     sigint |-> FALSE, at |-> "none", reported |-> ZeroStats,
     emptyYear |-> FALSE, year_ret |-> 0, yearStart |-> 0]

\* ------------------------------------------------------------------ Init
CrawlInit ==
    /\ web \in Webs
    /\ files = <<>>
    /\ stats = ZeroStats
    /\ run = 1
    /\ pc = "years"
    /\ yi = 1
    /\ ncyc = 0
    /\ ci = 0
    /\ advisories = <<>>
    /\ ki = 0
    /\ ui = 0
    /\ save_path = NoFile
    /\ content = Truncated
    /\ ret = FALSE
    /\ hist = NewHist(FALSE, {}, ZeroStats, 0, 0)

\* --------------------------------------------------------------- actions
\* crawl_years: the loop over the years is over, the statistics are printed.
crawl_years_report ==
    /\ pc = "years" /\ yi > MaxYears
    /\ pc' = "report"
    /\ UNCHANGED <<unitVars, fetch, parse, web, files, stats, run, yi, ncyc, ci, advisories, ki, ui, save_path, content, ret, hist>>

\* crawl_year_empty with the year counted as processed before the check.
crawl_year_empty_counted ==
    /\ pc = "years" /\ yi <= MaxYears
    /\ \E ok \in BOOLEAN :
        /\ ok \/ MayFail(Url(yi, 0, 0, 0))
        /\ YearCyclones(yi, ok) = 0
        /\ hist' = [hist EXCEPT !.seenYears = @ \cup {yi}, !.clean = @ /\ ok,
                                !.listed = IF ok THEN @ \cup {yi} ELSE @,
                                !.emptyYear = TRUE, !.year_ret = 0,
                                !.yearStart = stats.files_downloaded]
    /\ yi' = yi + 1
    /\ stats' = [stats EXCEPT !.years_processed = @ + 1]
    /\ UNCHANGED <<unitVars, fetch, parse, web, files, run, pc, ncyc, ci, advisories, ki, ui, save_path, content, ret>>

\* crawl_year when get_year_cyclones returns no record: the year page could
\* not be fetched, or holds no cyclone. It returns 0.
crawl_year_empty ==
    /\ pc = "years" /\ yi <= MaxYears
    /\ \E ok \in BOOLEAN :
        /\ ok \/ MayFail(Url(yi, 0, 0, 0))
        /\ YearCyclones(yi, ok) = 0
        /\ hist' = [hist EXCEPT !.seenYears = @ \cup {yi}, !.clean = @ /\ ok,
                                !.listed = IF ok THEN @ \cup {yi} ELSE @,
                                !.emptyYear = TRUE, !.year_ret = 0,
                                !.yearStart = stats.files_downloaded]
    /\ yi' = yi + 1
    /\ UNCHANGED <<unitVars, fetch, parse, web, files, stats, run, pc, ncyc, ci, advisories, ki, ui, save_path, content, ret>>

\* crawl_year when get_year_cyclones returns records.
crawl_year_listed ==
    /\ pc = "years" /\ yi <= MaxYears
    /\ YearCyclones(yi, TRUE) > 0
    /\ ncyc' = YearCyclones(yi, TRUE)
    /\ ci' = 1
    /\ pc' = "cyclones"
    /\ hist' = [hist EXCEPT !.seenYears = @ \cup {yi}, !.listed = @ \cup {yi},
                            !.emptyYear = FALSE, !.year_ret = 0,
                                !.yearStart = stats.files_downloaded]
    /\ UNCHANGED <<unitVars, fetch, parse, web, files, stats, run, yi, advisories, ki, ui, save_path, content, ret>>

\* crawl_year: every cyclone was crawled, the year is counted.
crawl_year_end ==
    /\ pc = "cyclones" /\ ci > ncyc
    /\ stats' = [stats EXCEPT !.years_processed = @ + 1]
    /\ yi' = yi + 1
    /\ pc' = "years"
    /\ UNCHANGED <<unitVars, fetch, parse, web, files, run, ncyc, ci, advisories, ki, ui, save_path, content, ret, hist>>

\* crawl_cyclone_begin with the failure of the detail page propagating: the
\* run stops there.
crawl_cyclone_begin_raises ==
    /\ pc = "cyclones" /\ ci <= ncyc
    /\ \E ok \in BOOLEAN :
        /\ ok \/ MayFail(Url(yi, ci, 0, 0))
        /\ advisories' = get_cyclone_advisories(yi, ci, ok)
        /\ hist' = [hist EXCEPT !.seenCyc = @ \cup {<<yi, ci>>}, !.clean = @ /\ ok,
                                !.resolved = IF ok THEN @ \cup {<<yi, ci>>} ELSE @]
        /\ pc' = IF ok THEN "urls" ELSE "crashed"
    /\ ki' = 1
    /\ ui' = 1
    /\ UNCHANGED <<unitVars, fetch, parse, web, files, stats, run, yi, ncyc, ci, save_path, content, ret>>

\* crawl_cyclone: the advisory links are resolved.
crawl_cyclone_begin ==
    /\ pc = "cyclones" /\ ci <= ncyc
    /\ \E ok \in BOOLEAN :
        /\ ok \/ MayFail(Url(yi, ci, 0, 0))
        /\ advisories' = get_cyclone_advisories(yi, ci, ok)
        /\ hist' = [hist EXCEPT !.seenCyc = @ \cup {<<yi, ci>>}, !.clean = @ /\ ok,
                                !.resolved = IF ok THEN @ \cup {<<yi, ci>>} ELSE @]
    /\ ki' = 1
    /\ ui' = 1
    /\ pc' = "urls"
    /\ UNCHANGED <<unitVars, fetch, parse, web, files, stats, run, yi, ncyc, ci, save_path, content, ret>>

\* crawl_cyclone: the URLs of the product kind are exhausted (or it has none).
next_kind ==
    /\ pc = "urls" /\ ki <= Len(DATA_TYPES)
    /\ ui > Len(UrlsOf(ki))
    /\ ki' = ki + 1
    /\ ui' = 1
    /\ UNCHANGED <<unitVars, fetch, parse, web, files, stats, run, pc, yi, ncyc, ci, advisories, save_path, content, ret, hist>>

\* crawl_cyclone returns; crawl_year counts the cyclone.
crawl_cyclone_end ==
    /\ pc = "urls" /\ ki > Len(DATA_TYPES)
    /\ stats' = [stats EXCEPT !.cyclones_processed = @ + 1]
    /\ ci' = ci + 1
    /\ pc' = "cyclones"
    /\ UNCHANGED <<unitVars, fetch, parse, web, files, run, yi, ncyc, advisories, ki, ui, save_path, content, ret, hist>>

\* crawl_cyclone: save_path.exists(), the URL is skipped.
skip_existing ==
    /\ pc = "urls" /\ ki <= Len(DATA_TYPES)
    /\ ui <= Len(UrlsOf(ki))
    /\ SavePath(CurUrl) \in DOMAIN files
    /\ ui' = ui + 1
    /\ hist' = [hist EXCEPT !.skipped = @ \cup {CurUrl}]
    /\ UNCHANGED <<unitVars, fetch, parse, web, files, stats, run, pc, yi, ncyc, ci, advisories, ki, save_path, content, ret>>

\* download_fetch_failed with the destination opened before the fetch.
download_fetch_failed_touch ==
    /\ pc = "urls" /\ ki <= Len(DATA_TYPES)
    /\ ui <= Len(UrlsOf(ki))
    /\ SavePath(CurUrl) \notin DOMAIN files
    /\ \E ok \in BOOLEAN :
        /\ ok \/ MayFail(CurUrl)
        /\ ok => BodyOf(CurUrl) = "empty"
        /\ hist' = [hist EXCEPT !.requested = @ \cup {CurUrl}, !.clean = FALSE,
                                !.failed = IF ok THEN @ ELSE @ \cup {CurUrl},
                                !.falses = @ + 1]
    /\ save_path' = SavePath(CurUrl)
    /\ files' = Write(files, SavePath(CurUrl), Truncated)
    /\ ret' = FALSE
    /\ pc' = "returned"
    /\ UNCHANGED <<unitVars, fetch, parse, web, stats, run, yi, ncyc, ci, advisories, ki, ui, content>>

\* crawl_cyclone calls download_advisory(url, save_path), whose fetch_page
\* returns None or an empty body: download_advisory returns False.
download_fetch_failed ==
    /\ pc = "urls" /\ ki <= Len(DATA_TYPES)
    /\ ui <= Len(UrlsOf(ki))
    /\ SavePath(CurUrl) \notin DOMAIN files
    /\ \E ok \in BOOLEAN :
        /\ ok \/ MayFail(CurUrl)
        /\ ok => BodyOf(CurUrl) = "empty"
        /\ hist' = [hist EXCEPT !.requested = @ \cup {CurUrl}, !.clean = FALSE,
                                !.failed = IF ok THEN @ ELSE @ \cup {CurUrl},
                                !.falses = @ + 1]
    /\ save_path' = SavePath(CurUrl)
    /\ ret' = FALSE
    /\ pc' = "returned"
    /\ UNCHANGED <<unitVars, fetch, parse, web, files, stats, run, yi, ncyc, ci, advisories, ki, ui, content>>

\* crawl_cyclone calls download_advisory(url, save_path), which fetches the
\* body and chooses the text to save and the path to save it at.
download_fetched ==
    /\ pc = "urls" /\ ki <= Len(DATA_TYPES)
    /\ ui <= Len(UrlsOf(ki))
    /\ SavePath(CurUrl) \notin DOMAIN files
    /\ BodyOf(CurUrl) # "empty"
    /\ content' = TextContent(CurUrl)
    /\ save_path' = FinalPath(CurUrl, SavePath(CurUrl))
    /\ pc' = "open"
    /\ hist' = [hist EXCEPT !.requested = @ \cup {CurUrl}, !.failed = @ \ {CurUrl}]
    /\ UNCHANGED <<unitVars, fetch, parse, web, files, stats, run, yi, ncyc, ci, advisories, ki, ui, ret>>

\* download_advisory: open(save_path, 'w') creates or truncates the file.
download_open ==
    /\ pc = "open"
    /\ files' = Write(files, save_path, Truncated)
    /\ pc' = "write"
    /\ UNCHANGED <<unitVars, fetch, parse, web, stats, run, yi, ncyc, ci, advisories, ki, ui, save_path, content, ret, hist>>

\* download_advisory: f.write(text_content), the file is closed, return True.
download_write ==
    /\ pc = "write"
    /\ files' = Write(files, save_path, content)
    /\ ret' = TRUE
    /\ pc' = "returned"
    /\ hist' = [hist EXCEPT !.successes = @ + 1]
    /\ UNCHANGED <<unitVars, fetch, parse, web, stats, run, yi, ncyc, ci, advisories, ki, ui, save_path, content>>

\* count_result with a download that failed left out of the counters.
count_result_failed_uncounted ==
    /\ pc = "returned"
    /\ stats' = IF ret THEN [stats EXCEPT !.files_downloaded = @ + 1] ELSE stats
    /\ ui' = ui + 1
    /\ pc' = "urls"
    /\ hist' = [hist EXCEPT !.year_ret = IF ret THEN @ + 1 ELSE @]
    /\ UNCHANGED <<unitVars, fetch, parse, web, files, run, yi, ncyc, ci, advisories, ki, save_path, content, ret>>

\* crawl_cyclone counts what download_advisory returned and goes on.
count_result ==
    /\ pc = "returned"
    /\ stats' = IF ret THEN [stats EXCEPT !.files_downloaded = @ + 1]
                       ELSE [stats EXCEPT !.files_failed = @ + 1]
    /\ ui' = ui + 1
    /\ pc' = "urls"
    /\ hist' = [hist EXCEPT !.year_ret = IF ret THEN @ + 1 ELSE @]
    /\ UNCHANGED <<unitVars, fetch, parse, web, files, run, yi, ncyc, ci, advisories, ki, save_path, content, ret>>

\* KeyboardInterrupt with the handler of fetch_page catching it as it
\* catches a transport error: the download fails and the crawl goes on.
KeyboardInterrupt_absorbed ==
    /\ pc \notin {"report", "interrupted"}
    /\ IF pc = "urls" /\ ki <= Len(DATA_TYPES) /\ ui <= Len(UrlsOf(ki))
       THEN /\ pc' = "returned"
            /\ ret' = FALSE
            /\ hist' = [hist EXCEPT !.sigint = TRUE, !.at = pc, !.falses = @ + 1]
       ELSE /\ pc' = "interrupted"
            /\ ret' = ret
            /\ hist' = [hist EXCEPT !.sigint = TRUE, !.at = pc, !.reported = stats]
    /\ UNCHANGED <<unitVars, fetch, parse, web, files, stats, run, yi, ncyc, ci, advisories, ki, ui, save_path, content>>

\* A keyboard interrupt arrives during crawl_years: no handler of the crawler
\* catches it (they catch Exception), the batch driver prints the counters.
KeyboardInterrupt ==
    /\ pc \notin {"report", "interrupted"}
    /\ pc' = "interrupted"
    /\ hist' = [hist EXCEPT !.sigint = TRUE, !.at = pc, !.reported = stats]
    /\ UNCHANGED <<unitVars, fetch, parse, web, files, stats, run, yi, ncyc, ci, advisories, ki, ui, save_path, content, ret>>

\* The batch driver is run again over the same years and the same output
\* tree after its report: main creates a new crawler, its counters at zero.
new_run ==
    /\ pc = "report"
    /\ run < MaxRuns
    /\ run' = run + 1
    /\ stats' = ZeroStats
    /\ hist' = NewHist(hist.clean, hist.failed, ZeroStats, 0, 0)
    /\ pc' = "years"
    /\ yi' = 1
    /\ ncyc' = 0
    /\ ci' = 0
    /\ advisories' = <<>>
    /\ ki' = 0
    /\ ui' = 0
    /\ save_path' = NoFile
    /\ content' = Truncated
    /\ ret' = FALSE
    /\ UNCHANGED <<unitVars, fetch, parse, web, files>>

\* ------------------------------------------------------------ fetch_page
\* Number of pages of the site fetch_page is called on.
MaxPages == 3
\* Number of nested calls of fetch_page the interpreter's recursion limit
\* allows.
MaxDepth == 3

FUrls == 1..MaxPages

NoTarget == 0

\* A page of the site: whether its text holds the meta http-equiv="refresh"
\* marker, and the URL its content="0;URL=..." attribute names, resolved
\* against the page's own URL (NoTarget when the text has no such attribute).
PageSet == [meta : BOOLEAN, target : FUrls \cup {NoTarget}]

Sites == [FUrls -> PageSet]

FetchIdle ==
    [pc |-> "idle", site |-> <<>>, url |-> 0, follow_redirects |-> TRUE, depth |-> 0,
     gets |-> <<>>, errAt |-> 0, result |-> "pending", body |-> 0]

\* fetch_page: the response text holds a meta-refresh with a target.
Redirects(page) == page.meta /\ page.target # NoTarget

FetchInit == \E site \in Sites : fetch = [FetchIdle EXCEPT !.site = site]

\* fetch_page(url) is called by the crawler.
fetch_page_call ==
    /\ fetch.pc = "idle"
    /\ \E url \in FUrls :
        fetch' = [fetch EXCEPT !.pc = "get", !.url = url, !.follow_redirects = TRUE, !.depth = 1]
    /\ UNCHANGED <<crawlVars, unitVars, parse>>

\* session_get_raises with the body of the redirecting page returned when
\* the request of the meta-refresh target fails.
session_get_raises_falls_back ==
    /\ fetch.pc = "get" /\ fetch.depth <= MaxDepth
    /\ fetch' = IF fetch.depth > 1
                THEN [fetch EXCEPT !.pc = "done", !.gets = Append(@, fetch.url),
                                   !.errAt = Len(fetch.gets) + 1, !.result = "text",
                                   !.body = fetch.gets[Len(fetch.gets)]]
                ELSE [fetch EXCEPT !.pc = "done", !.gets = Append(@, fetch.url),
                                   !.errAt = Len(fetch.gets) + 1, !.result = "None"]
    /\ UNCHANGED <<crawlVars, unitVars, parse>>

\* fetch_page: session.get or raise_for_status raises (timeout, connection
\* failure, non-2xx status); the handler returns None, and so does every
\* calling frame.
session_get_raises ==
    /\ fetch.pc = "get" /\ fetch.depth <= MaxDepth
    /\ fetch' = [fetch EXCEPT !.pc = "done", !.gets = Append(@, fetch.url),
                              !.errAt = Len(fetch.gets) + 1, !.result = "None"]
    /\ UNCHANGED <<crawlVars, unitVars, parse>>

\* fetch_page: the recursion limit is exceeded; RecursionError is an
\* Exception, the handler returns None.
recursion_error ==
    /\ fetch.pc = "get" /\ fetch.depth > MaxDepth
    /\ fetch' = [fetch EXCEPT !.pc = "done", !.result = "None"]
    /\ UNCHANGED <<crawlVars, unitVars, parse>>

\* fetch_page: the response holds a meta-refresh with a target; fetch_page
\* calls itself on the target with follow_redirects=False.
session_get_redirect ==
    /\ fetch.pc = "get" /\ fetch.depth <= MaxDepth
    /\ Redirects(fetch.site[fetch.url])
    /\ fetch' = [fetch EXCEPT !.gets = Append(@, fetch.url),
                              !.url = fetch.site[fetch.url].target,
                              !.follow_redirects = FALSE, !.depth = @ + 1]
    /\ UNCHANGED <<crawlVars, unitVars, parse>>

\* fetch_page: the response text is returned.
session_get_text ==
    /\ fetch.pc = "get" /\ fetch.depth <= MaxDepth
    /\ ~Redirects(fetch.site[fetch.url])
    /\ fetch' = [fetch EXCEPT !.pc = "done", !.gets = Append(@, fetch.url),
                              !.result = "text", !.body = fetch.url]
    /\ UNCHANGED <<crawlVars, unitVars, parse>>

FetchNext ==
    \/ fetch_page_call
    \/ session_get_raises
    \/ recursion_error
    \/ session_get_redirect
    \/ session_get_text

\* ------------------------------------------------------ get_year_cyclones
\* Number of atcf_index comments of a year page.
MaxMarks == 2
\* Number of cells of a table row (th cells of the header row, td cells of
\* the data row).
MaxCells == 2

\* The sequences over S of length at most n.
BSeq(S, n) == UNION {[1..k -> S] : k \in 0..n}

BasinCodes == {"al", "ep", "cp"}

BASIN_NAMES(code) ==
    CASE code = "al" -> "Atlantic"
      [] code = "ep" -> "E_Pacific"
      [] code = "cp" -> "C_Pacific"
      [] OTHER -> "Unknown"

\* The text the comment holds after "atcf_index=": two lower-case letters
\* and two digits (the regular expression matches), or something else.
NoId == [code |-> "", seq |-> 0]

AtcfIds == {[code |-> "al", seq |-> 1], [code |-> "ep", seq |-> 1], [code |-> "zz", seq |-> 1], NoId}

\* The element that follows the comment: an anchor with its text (a category
\* prefix and a name) and its href, or something that is no anchor.
NoAnchor == [prefix |-> "", bare |-> "", href |-> ""]

Anchors ==
    {[prefix |-> "Hurricane", bare |-> "ALEX", href |-> "refresh/ALEX.shtml"],
     [prefix |-> "Subtropical Storm", bare |-> "BETA", href |-> "refresh/BETA.shtml"],
     NoAnchor}

Marks == [id : AtcfIds, next : Anchors]

\* re.sub(r'^(Hurricane|Tropical Storm|Tropical Depression)\s+', '', name)
NameOnly(a) ==
    IF a.prefix \in {"Hurricane", "Tropical Storm", "Tropical Depression"}
    THEN <<a.bare>>
    ELSE <<a.prefix, a.bare>>

FullName(a) == <<a.prefix, a.bare>>

\* Legacy links: the href of a link is the digits before the name ("year"
\* when they are the year of the page, "other" for other digits, "none"),
\* the upper-case name and what follows the name.
L1 == [yr |-> "year", name |-> "ALEX", tail |-> "adv.html", text |-> "Hurricane ALEX"]

L2 == [yr |-> "none", name |-> "ALEX", tail |-> ".html", text |-> "ALEX"]

L3 == [yr |-> "year", name |-> "BETA", tail |-> ".shtml", text |-> "Tropical Storm BETA"]

L4 == [yr |-> "other", name |-> "BETA", tail |-> "adv.html", text |-> "BETA"]

Links == {L1, L2, L3, L4}

\* The anchors of one td cell, in document order.
CellLinks == {<<>>, <<L1>>, <<L2>>, <<L3>>, <<L4>>, <<L3, L1>>, <<L2, L1>>}

\* A td cell: its headers attribute ("" when it has none) and its anchors.
Tds == [headers : {"", "al", "ep", "zz"}, links : CellLinks]

\* A th cell: its id attribute ("" when it has none) and its text.
Ths ==
    {[id |-> "al", text |-> "storms"],
     [id |-> "xx", text |-> "storms"],
     [id |-> "", text |-> "atlantic"],
     [id |-> "", text |-> "pacific"],
     [id |-> "", text |-> "eastern pacific"],
     [id |-> "", text |-> "central pacific"],
     [id |-> "", text |-> "storms"]}

\* 'atlantic' in th_text, 'pacific' in th_text, 'east' in th_text,
\* 'central' in th_text
HasAtlantic(text) == text = "atlantic"

HasPacific(text) == text \in {"pacific", "eastern pacific", "central pacific"}

HasEast(text) == text = "eastern pacific"

HasCentral(text) == text = "central pacific"

\* patterns: re.search of pattern n in the href of the link
Matches(n, link) ==
    CASE n = 1 -> link.yr = "year" /\ link.tail = "adv.html"
      [] n = 2 -> link.tail = ".html"
      [] n = 3 -> link.yr = "year" /\ link.tail = ".shtml"
      [] n = 4 -> link.tail = ".shtml"

Lower(name) ==
    CASE name = "ALEX" -> "alex"
      [] name = "BETA" -> "beta"

\* The records of the new format, one per comment whose text matches and
\* which an anchor follows, in document order.
RECURSIVE NewFormat(_)
NewFormat(marks) ==
    IF marks = <<>> THEN <<>>
    ELSE LET m == Head(marks)
             rest == NewFormat(Tail(marks))
         IN  IF m.id # NoId /\ m.next # NoAnchor
             THEN <<[id |-> <<m.id.code, m.id.seq>>,
                     name |-> NameOnly(m.next),
                     full_name |-> FullName(m.next),
                     url |-> m.next.href,
                     format |-> "new",
                     basin |-> BASIN_NAMES(m.id.code),
                     basin_code |-> m.id.code]>> \o rest
             ELSE rest

\* The record a legacy link gives in a cell of the basin code.
LegacyRecord(year, link, code) ==
    [id |-> <<"legacy", year, Lower(link.name)>>,
     name |-> <<link.name>>,
     full_name |-> <<link.text>>,
     url |-> <<link.yr, link.name, link.tail>>,
     format |-> "legacy",
     basin |-> BASIN_NAMES(code),
     basin_code |-> code]

\* if not any(c['id'] == cyclone_id for c in cyclones): cyclones.append(...)
AppendNew(cyclones, rec) ==
    IF \E i \in 1..Len(cyclones) : cyclones[i].id = rec.id
    THEN cyclones
    ELSE Append(cyclones, rec)

\* for link in td.find_all('a', href=re.compile(pattern))
RECURSIVE ScanLinks(_, _, _, _, _)
ScanLinks(cyclones, year, links, n, code) ==
    IF links = <<>> THEN cyclones
    ELSE ScanLinks(IF Matches(n, Head(links))
                   THEN AppendNew(cyclones, LegacyRecord(year, Head(links), code))
                   ELSE cyclones,
                   year, Tail(links), n, code)

\* for pattern in patterns
ScanCell(cyclones, year, td, code) ==
    ScanLinks(ScanLinks(ScanLinks(ScanLinks(cyclones, year, td.links, 1, code),
                                  year, td.links, 2, code),
                        year, td.links, 3, code),
              year, td.links, 4, code)

\* The td cells with a headers attribute, the current basin carried from
\* cell to cell.
RECURSIVE HeadersScan(_, _, _, _)
HeadersScan(cyclones, year, tds, current) ==
    IF tds = <<>> THEN cyclones
    ELSE LET td == Head(tds)
             code == IF td.headers \in BasinCodes THEN td.headers ELSE current
         IN  HeadersScan(ScanCell(cyclones, year, td, code), year, Tail(tds), code)

\* ths = row.find_all('th', id=True), or row.find_all('th') when there is
\* none
HeaderRow(ths) ==
    LET withId == SelectSeq(ths, LAMBDA th : th.id # "")
    IN  IF withId # <<>> THEN withId ELSE ths

\* basin_by_column[idx], "al" when the column has no entry
ColumnCode(header_row, idx) ==
    IF idx > Len(header_row) THEN "al"
    ELSE LET th == header_row[idx]
         IN  CASE th.id \in BasinCodes -> th.id
               [] th.id \notin BasinCodes /\ HasAtlantic(th.text) -> "al"
               [] th.id \notin BasinCodes /\ ~HasAtlantic(th.text)
                    /\ HasPacific(th.text) /\ ~HasEast(th.text) -> "ep"
               [] th.id \notin BasinCodes /\ ~HasAtlantic(th.text)
                    /\ ~(HasPacific(th.text) /\ ~HasEast(th.text))
                    /\ HasCentral(th.text) /\ HasPacific(th.text) -> "cp"
               [] OTHER -> "al"

\* The td cells of the data row, each with the basin of its column.
RECURSIVE TableScan(_, _, _, _, _)
TableScan(cyclones, year, tds, header_row, idx) ==
    IF idx > Len(tds) THEN cyclones
    ELSE TableScan(ScanCell(cyclones, year, tds[idx], ColumnCode(header_row, idx)),
                   year, tds, header_row, idx + 1)

\* The legacy formats of a page with one table: a header row of the th
\* cells and a data row of the td cells.
Legacy(year, page) ==
    LET td_with_headers == SelectSeq(page.tds, LAMBDA td : td.headers # "")
    IN  IF td_with_headers # <<>>
        THEN HeadersScan(<<>>, year, td_with_headers, "al")
        ELSE IF HeaderRow(page.ths) # <<>> /\ page.tds # <<>>
             THEN TableScan(<<>>, year, page.tds, HeaderRow(page.ths), 1)
             ELSE <<>>

\* get_year_cyclones with the legacy formats read on every page.
get_year_cyclones_both(year, page) == NewFormat(page.marks) \o Legacy(year, page)

\* get_year_cyclones on a page that was fetched.
get_year_cyclones(year, page) ==
    LET cyclones == NewFormat(page.marks)
    IN  IF cyclones # <<>> THEN cyclones ELSE Legacy(year, page)

\* The year pages: pages of the new format with the legacy parts of one
\* small table, and legacy pages with at most one comment that yields no
\* record; the th cells matter only when no td cell has a headers attribute.
NewPages ==
    [marks : BSeq(Marks, MaxMarks),
     ths : {<<>>, <<[id |-> "al", text |-> "storms"]>>},
     tds : {<<>>, <<[headers |-> "", links |-> <<L1>>]>>, <<[headers |-> "ep", links |-> <<L3>>]>>}]

LegacyPages ==
    {page \in [marks : {<<>>, <<[id |-> NoId, next |-> NoAnchor]>>,
                        <<[id |-> [code |-> "al", seq |-> 1], next |-> NoAnchor]>>},
               ths : BSeq(Ths, MaxCells),
               tds : BSeq(Tds, MaxCells)] :
        (\E i \in 1..Len(page.tds) : page.tds[i].headers # "") => page.ths = <<>>}

YearPages == NewPages \cup LegacyPages

ParseIdle == [pc |-> "idle", year |-> 0, page |-> <<>>, cyclones |-> <<>>]

ParseInit ==
    \E year \in Years, page \in YearPages :
        parse = [pc |-> "fetched", year |-> year, page |-> page, cyclones |-> <<>>]

\* get_year_cyclones returns the records of the page.
parse_year_page ==
    /\ parse.pc = "fetched"
    /\ parse' = [parse EXCEPT !.pc = "returned",
                              !.cyclones = get_year_cyclones(parse.year, parse.page)]
    /\ UNCHANGED <<crawlVars, unitVars, fetch>>

ParseNext == parse_year_page

\* ------------------------------------------------------ download_advisory
\* Number of <pre> blocks of an advisory page.
MaxPres == 2
\* Number of white-space characters around the text of a <pre> block.
MaxPad == 2

\* The text of a <pre> block once stripped: a sequence of characters.
PreTexts == {<<>>, <<"a">>, <<"b", "c">>}

\* A <pre> block: the white space around its text and the text.
Pres == [pad : 0..MaxPad, text : PreTexts]

\* len(x.get_text())
PreLen(pre) == pre.pad + Len(pre.text)

\* What fetch_page gives download_advisory: None, the empty string, or a
\* document: whether it holds one of <html, <body, <!doctype, and its <pre>
\* blocks in document order.
Bodies ==
    {[got |-> "None", html |-> FALSE, pres |-> <<>>],
     [got |-> "empty", html |-> FALSE, pres |-> <<>>]}
    \cup [got : {"doc"}, html : BOOLEAN, pres : BSeq(Pres, MaxPres)]

\* max() returning the last block of the greatest length.
Largest_last(pres) ==
    pres[CHOOSE i \in 1..Len(pres) :
            /\ \A j \in 1..Len(pres) : PreLen(pres[j]) <= PreLen(pres[i])
            /\ \A j \in (i + 1)..Len(pres) : PreLen(pres[j]) < PreLen(pres[i])]

\* max(pre_tags, key=lambda x: len(x.get_text())): the first block of the
\* greatest length.
Largest(pres) ==
    pres[CHOOSE i \in 1..Len(pres) :
            /\ \A j \in 1..Len(pres) : PreLen(pres[j]) <= PreLen(pres[i])
            /\ \A j \in 1..(i - 1) : PreLen(pres[j]) < PreLen(pres[i])]

\* extract_text_from_html: the stripped text of the largest <pre> block,
\* None when the document has no <pre> block.
extract_text_from_html(body) ==
    IF body.pres # <<>>
    THEN [none |-> FALSE, text |-> Largest(body.pres).text]
    ELSE [none |-> TRUE, text |-> <<>>]

\* The destination paths crawl_cyclone hands over.
Dests == {[stem |-> "al012020.fstadv.001", ext |-> "txt"], [stem |-> "alex_advisory_001", ext |-> "txt"]}

\* download_advisory with the whole document saved at the destination path
\* as it was handed over.
download_advisory_keeps_suffix(body, dest) ==
    IF body.got # "doc"
    THEN [ret |-> FALSE, written |-> <<>>]
    ELSE IF ~body.html
         THEN [ret |-> TRUE, written |-> <<[path |-> dest, form |-> "verbatim", text |-> <<>>]>>]
         ELSE LET text_content == extract_text_from_html(body)
              IN  IF text_content.none \/ text_content.text = <<>>
                  THEN [ret |-> TRUE,
                        written |-> <<[path |-> dest, form |-> "html", text |-> <<>>]>>]
                  ELSE [ret |-> TRUE,
                        written |-> <<[path |-> dest, form |-> "pre", text |-> text_content.text]>>]

\* download_advisory: what it returns and the files it writes, in order:
\* the path, and the body verbatim, the text of a <pre> block, or the whole
\* HTML document.
download_advisory(body, dest) ==
    IF body.got # "doc"
    THEN [ret |-> FALSE, written |-> <<>>]
    ELSE IF ~body.html
         THEN [ret |-> TRUE, written |-> <<[path |-> dest, form |-> "verbatim", text |-> <<>>]>>]
         ELSE LET text_content == extract_text_from_html(body)
              IN  IF text_content.none \/ text_content.text = <<>>
                  THEN [ret |-> TRUE,
                        written |-> <<[path |-> [dest EXCEPT !.ext = "html"],
                                       form |-> "html", text |-> <<>>]>>]
                  ELSE [ret |-> TRUE,
                        written |-> <<[path |-> dest, form |-> "pre", text |-> text_content.text]>>]

DownloadInit ==
    \E body \in Bodies, dest \in Dests :
        download = [pc |-> "called", body |-> body, save_path |-> dest,
                    ret |-> FALSE, written |-> <<>>, text_content |-> [none |-> TRUE, text |-> <<>>]]

\* extract_text_from_html returns, called on a document.
extract_text_from_html_returns ==
    /\ download.pc = "called"
    /\ download.body.got = "doc"
    /\ download' = [download EXCEPT !.pc = "extracted",
                                     !.text_content = extract_text_from_html(download.body)]
    /\ UNCHANGED <<crawlVars, fetch, parse, iem, resolve, matcher, tracks, bearing>>

\* download_advisory returns.
download_advisory_returns ==
    /\ download.pc = "called"
    /\ LET r == download_advisory(download.body, download.save_path)
       IN  download' = [download EXCEPT !.pc = "returned", !.ret = r.ret, !.written = r.written]
    /\ UNCHANGED <<crawlVars, fetch, parse, iem, resolve, matcher, tracks, bearing>>

DownloadNext == download_advisory_returns \/ extract_text_from_html_returns

\* ------------------------------------------------- get_cyclone_advisories
\* Number of anchors with an href on a detail page.
MaxAnchors == 3

\* The hrefs of a detail page. An advisory href names a file
\* {id}{year}.{kind}.{num}.shtml: the cyclone id it carries, the year as
\* written ("yyyy" the year of the call in four digits, "yy" in two, "other"
\* another year), the product name, the number, and the directory before the
\* file ("mar": /archive/{year}/mar/, "id": /archive/{year}/{id}/, "none":
\* relative to the detail page). An old href names archive/{dir}/MAL0198.001
\* under the directory dir. Anything else is of the shape "other".
Hrefs ==
    {[shape |-> "adv", id |-> "al01", yr |-> "yyyy", kind |-> "fstadv", num |-> 1, dir |-> "none"],
     [shape |-> "adv", id |-> "al01", yr |-> "yyyy", kind |-> "fstadv", num |-> 2, dir |-> "none"],
     [shape |-> "adv", id |-> "al01", yr |-> "yy", kind |-> "public", num |-> 1, dir |-> "none"],
     [shape |-> "adv", id |-> "al01", yr |-> "yyyy", kind |-> "prblty", num |-> 1, dir |-> "mar"],
     [shape |-> "adv", id |-> "al01", yr |-> "yyyy", kind |-> "discus", num |-> 1, dir |-> "id"],
     [shape |-> "adv", id |-> "al01", yr |-> "yyyy", kind |-> "discus", num |-> 1, dir |-> "mar"],
     [shape |-> "adv", id |-> "ep02", yr |-> "yyyy", kind |-> "fstadv", num |-> 1, dir |-> "mar"],
     [shape |-> "adv", id |-> "al01", yr |-> "other", kind |-> "wndprb", num |-> 1, dir |-> "mar"],
     [shape |-> "old", id |-> "", yr |-> "", kind |-> "", num |-> 1, dir |-> "mar"],
     [shape |-> "old", id |-> "", yr |-> "", kind |-> "", num |-> 1, dir |-> "prb"],
     [shape |-> "other", id |-> "", yr |-> "", kind |-> "", num |-> 0, dir |-> "none"]}

\* urljoin(cyclone_url, href) as a string: the characters that tell the
\* URLs of a detail page apart, as numbers in the order of their code
\* points.
Rank(x) ==
    CASE x \in {"", "none", "al01", "discus", "yy"} -> 1
      [] x \in {"adv", "ep02", "fstadv", "id", "yyyy"} -> 2
      [] x \in {"old", "mar", "prblty", "other"} -> 3
      [] x \in {"prb", "public"} -> 4
      [] x = "wndprb" -> 5

FullUrl(href) ==
    <<Rank(href.dir), Rank(href.shape), Rank(href.id), Rank(href.yr), Rank(href.kind),
      href.num \div 10, href.num % 10>>

\* The order of str: a proper prefix first, else the first differing
\* character decides.
RECURSIVE LexLeq(_, _)
LexLeq(a, b) ==
    IF a = <<>> THEN TRUE
    ELSE IF b = <<>> THEN FALSE
    ELSE IF Head(a) # Head(b) THEN Head(a) < Head(b)
    ELSE LexLeq(Tail(a), Tail(b))

\* One step of sorted(): x placed after the entries not greater than it.
RECURSIVE Insert(_, _)
Insert(x, sorted) ==
    IF sorted = <<>> THEN <<x>>
    ELSE IF LexLeq(Head(sorted), x) THEN <<Head(sorted)>> \o Insert(x, Tail(sorted))
    ELSE <<x>> \o sorted

\* sorted() with a URL that is already in the list left out.
RECURSIVE sorted_set(_)
sorted_set(urls) ==
    IF urls = <<>> THEN <<>>
    ELSE LET rest == sorted_set(Tail(urls))
         IN  IF \E i \in 1..Len(rest) : rest[i] = Head(urls)
             THEN rest
             ELSE Insert(Head(urls), rest)

\* sorted(advisories[key])
RECURSIVE sorted(_)
sorted(urls) ==
    IF urls = <<>> THEN <<>>
    ELSE Insert(Head(urls), sorted(Tail(urls)))

\* The new format: pattern1 (four-digit year) or pattern2 (two-digit year)
\* of the product kind is found in the href.
NewMatch(href, cyclone_id, short_name) ==
    /\ href.shape = "adv"
    /\ href.id = cyclone_id
    /\ href.yr \in {"yyyy", "yy"}
    /\ href.kind = short_name

\* The legacy format, first strategy: pattern1 (/archive/{year}/[a-z]+/) or
\* pattern2 (/archive/{year}/{id}/) with the real cyclone id and one of the
\* type names of the product kind.
LegacyIdMatch(href, real_cyclone_id, short_name) ==
    /\ href.shape = "adv"
    /\ href.dir \in {"mar", "id"}
    /\ href.id = real_cyclone_id
    /\ href.yr = "yyyy"
    /\ \/ href.kind = short_name
       \/ short_name = "wndprb" /\ href.kind = "prblty"

\* legacy_dir_mapping
legacy_dir_mapping(legacy_dir) ==
    CASE legacy_dir = "mar" -> "fstadv"
      [] legacy_dir = "pub" -> "public"
      [] legacy_dir = "dis" -> "discus"
      [] legacy_dir = "prb" -> "wndprb"

\* The legacy format, second strategy: archive(/yyyy)?/{dir}/ and an old
\* file name.
LegacyDirMatch(href, short_name) ==
    /\ href.shape = "old"
    /\ href.dir \in {"mar", "pub", "dis", "prb"}
    /\ legacy_dir_mapping(href.dir) = short_name

\* The body of a detail page before its first anchor: the places where
\* (al|ep|cp)\d{2} is followed by four digits, as the id and whether the
\* four digits are the year of the call ("yyyy") or not ("other").
IdTexts ==
    {<<>>,
     <<[id |-> "al01", yr |-> "yyyy"]>>,
     <<[id |-> "ep02", yr |-> "other"]>>,
     <<[id |-> "ep02", yr |-> "other"], [id |-> "al01", yr |-> "yyyy"]>>}

\* Every place of the raw page where (al|ep|cp)(\d{2})\d{4} matches, in
\* the order of the page: those of the text, then those of the hrefs (the
\* file name of an advisory href with a four-digit year).
IdMatches(page) ==
    LET inHref == SelectSeq(page.links,
                            LAMBDA h : h.shape = "adv" /\ h.yr \in {"yyyy", "other"})
    IN  page.text \o [i \in 1..Len(inHref) |-> [id |-> inHref[i].id, yr |-> inHref[i].yr]]

\* real_cyclone_id: for the years from 2003 on, the id of the first match of
\* re.search on the raw page; else the id of the call.
RealCycloneId(page, cyclone_id, late) ==
    IF late /\ IdMatches(page) # <<>> THEN Head(IdMatches(page)).id ELSE cyclone_id

\* The URLs of the links whose href is one of the matching ones, in
\* document order.
Collect(links, matching) ==
    LET hits == SelectSeq(links, LAMBDA h : h \in matching)
    IN  [i \in 1..Len(hits) |-> FullUrl(hits[i])]

\* get_cyclone_advisories before the lists are sorted, with the second
\* legacy strategy run whatever the first one found.
Collected_both(page, cyclone_id, late, format_type) ==
    IF format_type = "legacy"
    THEN LET rid == RealCycloneId(page, cyclone_id, late)
         IN  [k \in KindIdx |->
                Collect(page.links, {h \in Hrefs : LegacyIdMatch(h, rid, DATA_TYPES[k])})
                \o Collect(page.links, {h \in Hrefs : LegacyDirMatch(h, DATA_TYPES[k])})]
    ELSE [k \in KindIdx |->
            Collect(page.links, {h \in Hrefs : NewMatch(h, cyclone_id, DATA_TYPES[k])})]

\* get_cyclone_advisories before the lists are sorted.
Collected(page, cyclone_id, late, format_type) ==
    IF format_type = "legacy"
    THEN LET rid == RealCycloneId(page, cyclone_id, late)
             byId == [k \in KindIdx |->
                        Collect(page.links, {h \in Hrefs : LegacyIdMatch(h, rid, DATA_TYPES[k])})]
         IN  IF \A k \in KindIdx : byId[k] = <<>>
             THEN [k \in KindIdx |->
                     Collect(page.links, {h \in Hrefs : LegacyDirMatch(h, DATA_TYPES[k])})]
             ELSE byId
    ELSE [k \in KindIdx |->
            Collect(page.links, {h \in Hrefs : NewMatch(h, cyclone_id, DATA_TYPES[k])})]

\* get_cyclone_advisories on the detail page fetch_page gave: the empty
\* mapping when it gave None or an empty text, else the sorted URLs of
\* every product kind.
CycloneAdvisories(page, cyclone_id, late, format_type) ==
    IF page.got # "doc" THEN <<>>
    ELSE LET found == Collected(page, cyclone_id, late, format_type)
         IN  [k \in KindIdx |-> sorted(found[k])]

DetailPages ==
    {[got |-> "None", text |-> <<>>, links |-> <<>>],
     [got |-> "empty", text |-> <<>>, links |-> <<>>]}
    \cup [got : {"doc"}, text : IdTexts, links : BSeq(Hrefs, MaxAnchors)]

ResolveInit ==
    \E page \in DetailPages, late \in BOOLEAN, format_type \in {"new", "legacy"} :
        resolve = [pc |-> "called", page |-> page, late |-> late, format_type |-> format_type,
                   cyclone_id |-> IF format_type = "new" THEN "al01" ELSE "legacy_alex",
                   real_cyclone_id |-> "", advisories |-> <<>>, log |-> <<>>]

\* get_cyclone_advisories returns.
get_cyclone_advisories_returns ==
    /\ resolve.pc = "called"
    /\ resolve' = [resolve EXCEPT
                     !.pc = "returned",
                     !.real_cyclone_id =
                         IF resolve.page.got = "doc" /\ resolve.format_type = "legacy"
                         THEN RealCycloneId(resolve.page, resolve.cyclone_id, resolve.late)
                         ELSE "",
                     !.advisories = CycloneAdvisories(resolve.page, resolve.cyclone_id,
                                                      resolve.late, resolve.format_type)]
    /\ UNCHANGED <<crawlVars, fetch, parse, iem, download, matcher, tracks, bearing>>

\* filename of crawl_cyclone: the last segment of the URL with .shtml
\* replaced by .txt, and for a legacy cyclone a segment that does not end
\* in .txt replaced by {name}_advisory_{idx:03d}.txt.
Filename(url, idx, format_type) ==
    LET href == CHOOSE h \in Hrefs : FullUrl(h) = url
    IN  IF href.shape = "adv"
        THEN [id |-> href.id, yr |-> href.yr, kind |-> href.kind, num |-> href.num, idx |-> 0]
        ELSE IF format_type = "legacy"
             THEN [id |-> "", yr |-> "", kind |-> "advisory", num |-> 0, idx |-> idx]
             ELSE [id |-> "", yr |-> "", kind |-> href.shape, num |-> href.num, idx |-> 0]

\* The loop of crawl_cyclone over the URLs of a product kind, from the
\* idx-th on: a URL whose save_path exists is skipped, the others are
\* downloaded and saved at save_path.
RECURSIVE CrawlKind(_, _, _, _, _)
CrawlKind(urls, idx, k, format_type, existing) ==
    IF idx > Len(urls) THEN <<>>
    ELSE LET save_path_ == [kind |-> k, filename |-> Filename(urls[idx], idx, format_type)]
             skip == save_path_ \in existing
         IN  <<[url |-> urls[idx], save_path |-> save_path_, skipped |-> skip]>>
             \o CrawlKind(urls, idx + 1, k, format_type, existing \cup {save_path_})

\* crawl_cyclone on an empty output directory, every download succeeding:
\* what it did with every URL, kind after kind.
crawl_cyclone_downloads ==
    /\ resolve.pc = "returned"
    /\ resolve' = [resolve EXCEPT
                     !.pc = "crawled",
                     !.log = [k \in DOMAIN resolve.advisories |->
                                CrawlKind(resolve.advisories[k], 1, k, resolve.format_type, {})]]
    /\ UNCHANGED <<crawlVars, fetch, parse, iem, download, matcher, tracks, bearing>>

ResolveNext == get_cyclone_advisories_returns \/ crawl_cyclone_downloads

\* ---------------------------------------------------------- CycloneMatcher
\* Number of storm directories under the NOAA directory.
MaxDirs == 2
\* Number of rows of the track table.
MaxRows == 3

\* What pandas holds for a missing name, and for the year of a time that
\* does not parse.
NaN == <<"NaN">>

NaT == 0

\* str.upper() of a character, and of a word of a category prefix, which
\* stands as one character.
Upper(ch) ==
    CASE ch = "a" -> "A"
      [] ch = "b" -> "B"
      [] ch \in {"Potential", "potential"} -> "POTENTIAL"
      [] ch \in {"Tropical", "tropical"} -> "TROPICAL"
      [] ch \in {"Cyclone", "cyclone"} -> "CYCLONE"
      [] ch \in {"Depression", "depression"} -> "DEPRESSION"
      [] ch \in {"Storm", "storm"} -> "STORM"
      [] ch \in {"Hurricane", "hurricane"} -> "HURRICANE"
      [] OTHER -> ch

UpperStr(str) == [i \in 1..Len(str) |-> Upper(str[i])]

\* The code points of a string of upper-case characters.
CodePoints(str) == [i \in 1..Len(str) |-> IF str[i] = "A" THEN 1 ELSE IF str[i] = "B" THEN 2 ELSE 3]

\* A storm directory {year}/{basin}/{name}: the name as written (a known
\* or unknown category prefix, "" when there is none, and the words after
\* it), what the forecast_advisory and forecast_discussion subdirectories
\* are ("absent", "empty", "files") and whether public_advisory or
\* wind_speed_probabilities hold files.
StormDirs ==
    {[year |-> 1, basin |-> "Atlantic", prefix |-> "", words |-> <<<<"A">>>>,
      adv |-> "files", disc |-> "absent", others |-> TRUE],
     [year |-> 1, basin |-> "E_Pacific", prefix |-> "Tropical Storm", words |-> <<<<"a">>, <<"B">>>>,
      adv |-> "empty", disc |-> "files", others |-> FALSE],
     [year |-> 2, basin |-> "Atlantic", prefix |-> "", words |-> <<<<"A">>>>,
      adv |-> "absent", disc |-> "absent", others |-> TRUE],
     [year |-> 2, basin |-> "Atlantic", prefix |-> "", words |-> <<<<"A", "B">>>>,
      adv |-> "files", disc |-> "files", others |-> TRUE],
     [year |-> 1, basin |-> "Atlantic", prefix |-> "Subtropical Storm", words |-> <<<<"A">>>>,
      adv |-> "files", disc |-> "absent", others |-> FALSE],
     [year |-> 1, basin |-> "Atlantic", prefix |-> "", words |-> <<<<"B">>>>,
      adv |-> "empty", disc |-> "absent", others |-> TRUE]}

\* The rows of the track table: the storm id, the name as written (NaN when
\* missing) and the year of iso_time (NaT when it does not parse).
TrackRows ==
    {[sid |-> 2, name |-> <<"A", "B">>, year |-> 1],
     [sid |-> 1, name |-> <<"a">>, year |-> 1],
     [sid |-> 3, name |-> <<"A">>, year |-> 2],
     [sid |-> 3, name |-> <<"A">>, year |-> 1],
     [sid |-> 4, name |-> NaN, year |-> 1],
     [sid |-> 5, name |-> <<"B">>, year |-> NaT]}

\* load_ibtracs_data: name_clean
name_clean(row) == IF row.name = NaN THEN NaN ELSE UpperStr(row.name)

\* forecast_adv_dir.exists() and any(forecast_adv_dir.iterdir())
HasEntries(sub) == sub # "absent" /\ sub = "files"

\* scan_noaa_directory with every storm directory that has a product
\* subdirectory recorded, empty or not.
RECURSIVE scan_noaa_directory_exists(_)
scan_noaa_directory_exists(tree) ==
    IF tree = <<>> THEN <<>>
    ELSE LET storm_dir == Head(tree)
             rest == scan_noaa_directory_exists(Tail(tree))
         IN  IF storm_dir.adv # "absent" \/ storm_dir.disc # "absent" \/ storm_dir.others
             THEN <<[dir |-> storm_dir,
                     has_advisory |-> HasEntries(storm_dir.adv),
                     has_discussion |-> HasEntries(storm_dir.disc)]>> \o rest
             ELSE rest

\* scan_noaa_directory: the storm directories with an entry under
\* forecast_advisory or forecast_discussion, in the order of the walk.
RECURSIVE scan_noaa_directory(_)
scan_noaa_directory(tree) ==
    IF tree = <<>> THEN <<>>
    ELSE LET storm_dir == Head(tree)
             has_advisory == HasEntries(storm_dir.adv)
             has_discussion == HasEntries(storm_dir.disc)
             rest == scan_noaa_directory(Tail(tree))
         IN  IF has_advisory \/ has_discussion
             THEN <<[dir |-> storm_dir, has_advisory |-> has_advisory,
                     has_discussion |-> has_discussion]>> \o rest
             ELSE rest

\* storm_dir.name.upper().strip() as its whitespace-delimited tokens: the
\* words of the prefix, then the words after it.
storm_name(storm_dir) ==
    LET prefix == CASE storm_dir.prefix = "" -> <<>>
                    [] storm_dir.prefix = "Tropical Storm" -> <<<<"TROPICAL">>, <<"STORM">>>>
                    [] storm_dir.prefix = "Subtropical Storm" -> <<<<"SUBTROPICAL">>, <<"STORM">>>>
    IN  prefix \o [i \in 1..Len(storm_dir.words) |-> UpperStr(storm_dir.words[i])]

\* re.sub(r'^{prefix}\s+', '', name, flags=re.IGNORECASE) on a stripped
\* name: the words of the prefix are removed when they start the name and a
\* token follows them.
StripPrefix(name, prefix) ==
    IF /\ Len(name) > Len(prefix)
       /\ \A i \in 1..Len(prefix) : UpperStr(name[i]) = prefix[i]
    THEN SubSeq(name, Len(prefix) + 1, Len(name))
    ELSE name

\* _clean_storm_name stopping at the first prefix it removes.
_clean_storm_name_once(name) ==
    LET tropical == {<<<<"TROPICAL">>, <<w>>>> : w \in {"DEPRESSION", "STORM", "CYCLONE"}}
        prefixes == {<<<<"POTENTIAL">>, <<"TROPICAL">>, <<"CYCLONE">>>>, <<<<"HURRICANE">>>>} \cup tropical
        words == IF \E p \in prefixes : StripPrefix(name, p) # name
                 THEN StripPrefix(name, CHOOSE p \in prefixes : StripPrefix(name, p) # name)
                 ELSE name
    IN  IF words # <<>> THEN UpperStr(words[1]) ELSE <<>>

\* _clean_storm_name: the three substitutions one after the other, then
\* the first word in upper case ("" for a name without a word).
_clean_storm_name(name) ==
    LET potential == StripPrefix(name, <<<<"POTENTIAL">>, <<"TROPICAL">>, <<"CYCLONE">>>>)
        tropical == IF \E w \in {"DEPRESSION", "STORM", "CYCLONE"} :
                          StripPrefix(potential, <<<<"TROPICAL">>, <<w>>>>) # potential
                    THEN SubSeq(potential, 3, Len(potential))
                    ELSE potential
        words == StripPrefix(tropical, <<<<"HURRICANE">>>>)
    IN  IF words # <<>> THEN UpperStr(words[1]) ELSE <<>>

\* str.contains(pat, case=False, na=False) for a pattern of letters.
Contains(name, pat) ==
    /\ name # NaN
    /\ \E i \in 0..(Len(name) - Len(pat)) :
        \A j \in 1..Len(pat) : Upper(name[i + j]) = Upper(pat[j])

\* The keys of groupby(['sid', 'name_clean', 'year']): rows with a missing
\* key are dropped.
GroupKeys(table) ==
    {[sid |-> table[i].sid, name |-> name_clean(table[i]), year |-> table[i].year] :
        i \in {j \in 1..Len(table) : table[j].name # NaN /\ table[j].year # NaT}}

\* The order of the group keys: by sid, then name, then year.
KeyLess(a, b) ==
    \/ a.sid < b.sid
    \/ a.sid = b.sid /\ a.name # b.name /\ LexLeq(CodePoints(a.name), CodePoints(b.name))
    \/ a.sid = b.sid /\ a.name = b.name /\ a.year < b.year

\* The groups in key order.
RECURSIVE SortKeys(_)
SortKeys(keys) ==
    IF keys = {} THEN <<>>
    ELSE LET least == CHOOSE k \in keys : \A other \in keys \ {k} : KeyLess(k, other)
         IN  <<least>> \o SortKeys(keys \ {least})

\* ibtracs_storms: groupby(...).agg(...).reset_index(), one row per group,
\* sorted by the group keys.
ibtracs_storms(table) == SortKeys(GroupKeys(table))

\* matches with the name test alone, the year not compared.
Matches_any_year(storms, noaa_storm) ==
    SelectSeq(storms, LAMBDA g : Contains(g.name, _clean_storm_name(storm_name(noaa_storm.dir))))

\* matches = ibtracs_storms[(year == year) & name.str.contains(name_clean)]
Matches_(storms, noaa_storm) ==
    SelectSeq(storms, LAMBDA g :
        g.year = noaa_storm.dir.year /\ Contains(g.name, _clean_storm_name(storm_name(noaa_storm.dir))))

\* match_storms: one row for every discovered storm with a match, the
\* first match taken.
RECURSIVE match_storms(_, _)
match_storms(storms, noaa_storms) ==
    IF noaa_storms = <<>> THEN <<>>
    ELSE LET noaa_storm == Head(noaa_storms)
             matches == Matches_(storms, noaa_storm)
             rest == match_storms(storms, Tail(noaa_storms))
         IN  IF Len(matches) > 0
             THEN <<[ibtracs_sid |-> matches[1].sid, ibtracs_name |-> matches[1].name,
                     year |-> noaa_storm.dir.year, noaa |-> noaa_storm.dir,
                     has_advisory |-> noaa_storm.has_advisory,
                     has_discussion |-> noaa_storm.has_discussion]>> \o rest
             ELSE rest

\* track_data.merge(storm_info, on='sid', how='left'): every row of the
\* left table once for every row of storm_info with its sid, in the order of
\* the left table.
RECURSIVE merge(_, _)
merge(track_data, storm_info) ==
    IF track_data = <<>> THEN <<>>
    ELSE LET fix == Head(track_data)
             info == SelectSeq(storm_info, LAMBDA m : m.ibtracs_sid = fix.sid)
         IN  [i \in 1..Len(info) |->
                [fix |-> fix.row, sid |-> fix.sid, noaa_name |-> storm_name(info[i].noaa)]]
             \o merge(Tail(track_data), storm_info)

\* extract_tracks: the rows of the track table whose sid is one of the
\* matched sids, merged with the matched-storm table. The columns added
\* afterwards and the final sort leave the rows as they are.
extract_tracks(table, matched_storms) ==
    LET matched_sids == {matched_storms[j].ibtracs_sid : j \in 1..Len(matched_storms)}
        rows == [i \in 1..Len(table) |-> [row |-> i, sid |-> table[i].sid]]
        track_data == SelectSeq(rows, LAMBDA r : r.sid \in matched_sids)
    IN  merge(track_data, matched_storms)

\* Number of whitespace-delimited tokens of a display name.
MaxTokens == 4

\* The tokens of a display name: words of the category prefixes in some
\* letter case, and names.
NameTokens ==
    {<<"Potential">>, <<"tropical">>, <<"CYCLONE">>, <<"Storm">>, <<"hurricane">>, <<"a">>, <<"B">>}

\* A matcher on a NOAA directory (no directory twice) and a track table, or
\* a display name handed to _clean_storm_name.
MatcherInit ==
    \/ \E tree \in BSeq(StormDirs, MaxDirs), table \in BSeq(TrackRows, MaxRows) :
        /\ \A i, j \in 1..Len(tree) : i # j => tree[i] # tree[j]
        /\ matcher = [pc |-> "created", tree |-> tree, table |-> table,
                      noaa_storms |-> <<>>, matched |-> <<>>, track_data |-> <<>>,
                      name |-> <<>>, cleaned |-> <<>>]
    \/ \E name \in BSeq(NameTokens, MaxTokens) :
        matcher = [pc |-> "name", tree |-> <<>>, table |-> <<>>,
                   noaa_storms |-> <<>>, matched |-> <<>>, track_data |-> <<>>,
                   name |-> name, cleaned |-> <<>>]

\* _clean_storm_name returns.
_clean_storm_name_returns ==
    /\ matcher.pc = "name"
    /\ matcher' = [matcher EXCEPT !.pc = "cleaned", !.cleaned = _clean_storm_name(matcher.name)]
    /\ UNCHANGED <<crawlVars, fetch, parse, iem, download, resolve, tracks, bearing>>

\* scan_noaa_directory is called.
scan_noaa_directory_returns ==
    /\ matcher.pc = "created"
    /\ matcher' = [matcher EXCEPT !.pc = "scanned",
                                  !.noaa_storms = scan_noaa_directory(matcher.tree)]
    /\ UNCHANGED <<crawlVars, fetch, parse, iem, download, resolve, tracks, bearing>>

\* match_storms is called.
match_storms_returns ==
    /\ matcher.pc = "scanned"
    /\ matcher' = [matcher EXCEPT
                     !.pc = "matched",
                     !.matched = match_storms(ibtracs_storms(matcher.table), matcher.noaa_storms)]
    /\ UNCHANGED <<crawlVars, fetch, parse, iem, download, resolve, tracks, bearing>>

\* extract_tracks is called on the track table and the matched storms.
extract_tracks_returns ==
    /\ matcher.pc = "matched"
    /\ matcher' = [matcher EXCEPT
                     !.pc = "extracted",
                     !.track_data = extract_tracks(matcher.table, matcher.matched)]
    /\ UNCHANGED <<crawlVars, fetch, parse, iem, download, resolve, tracks, bearing>>

MatcherNext ==
    \/ extract_tracks_returns
    \/ scan_noaa_directory_returns
    \/ match_storms_returns
    \/ _clean_storm_name_returns

\* ------------------------------------------------ _calculate_storm_movement
\* Latest time of a fix.
MaxTime == 3

\* The fixes of the track table: the storm, the time (NaT when iso_time
\* does not parse) and whether lat and lon are both present.
Fixes == [sid : 1..2, datetime : {NaT} \cup 1..MaxTime, located : BOOLEAN]

\* What a fix holds in storm_speed and storm_direction: nothing (NaN), or the
\* values computed from two rows of the table.
NoMovement == [prev |-> 0, curr |-> 0]

\* df[mask]: the rows of the storm, by index, in the order of the table.
Masked(df, storm_id) ==
    LET RECURSIVE From(_)
        From(i) == IF i > Len(df) THEN <<>>
                   ELSE IF df[i].sid = storm_id THEN <<i>> \o From(i + 1)
                   ELSE From(i + 1)
    IN  From(1)

\* The order of sort_values('datetime'): earlier first, NaT last.
TimeLeq(df, i, j) ==
    \/ df[j].datetime = NaT
    \/ df[i].datetime # NaT /\ df[i].datetime <= df[j].datetime

\* sort_values('datetime') of the rows of a storm; rows of equal time keep
\* the order of the table.
RECURSIVE SortByTime(_, _)
SortByTime(df, idx) ==
    IF idx = <<>> THEN <<>>
    ELSE LET rest == SortByTime(df, Tail(idx))
             RECURSIVE Place(_, _)
             Place(i, done) ==
                 IF done = <<>> THEN <<i>>
                 ELSE IF TimeLeq(df, i, Head(done)) THEN <<i>> \o done
                 ELSE <<Head(done)>> \o Place(i, Tail(done))
         IN  Place(Head(idx), rest)

\* The loop leaving every step after a fix with a missing value without
\* speed and direction.
Speeds_abort(df, storm_data) ==
    [i \in 1..Len(storm_data) |->
        IF i = 1 THEN NoMovement
        ELSE LET prev_idx == storm_data[i - 1]
                 curr_idx == storm_data[i]
             IN  IF \E j \in 1..i : ~df[storm_data[j]].located \/ df[storm_data[j]].datetime = NaT
                 THEN NoMovement
                 ELSE IF df[curr_idx].datetime - df[prev_idx].datetime > 0
                      THEN [prev |-> prev_idx, curr |-> curr_idx]
                      ELSE NoMovement]

\* The loop over the sorted rows of a storm: speeds and directions, one per
\* position of the sorted rows.
Speeds(df, storm_data) ==
    [i \in 1..Len(storm_data) |->
        IF i = 1 THEN NoMovement
        ELSE LET prev_idx == storm_data[i - 1]
                 curr_idx == storm_data[i]
             IN  IF ~df[prev_idx].located \/ ~df[curr_idx].located THEN NoMovement
                 ELSE IF df[prev_idx].datetime = NaT \/ df[curr_idx].datetime = NaT THEN NoMovement
                 ELSE IF df[curr_idx].datetime - df[prev_idx].datetime > 0
                      THEN [prev |-> prev_idx, curr |-> curr_idx]
                      ELSE NoMovement]

\* The position of a row among the rows of its storm, in table order.
PositionIn(idx, row) == CHOOSE p \in 1..Len(idx) : idx[p] = row

\* _calculate_storm_movement: df.loc[mask, ...] = speeds gives the rows of
\* the storm, in the order of the table, the values of the list in order.
_calculate_storm_movement(df) ==
    [row \in 1..Len(df) |->
        LET idx == Masked(df, df[row].sid)
            storm_data == SortByTime(df, idx)
        IN  IF Len(storm_data) < 2 THEN NoMovement
            ELSE Speeds(df, storm_data)[PositionIn(idx, row)]]

TracksInit ==
    \E df \in BSeq(Fixes, MaxRows) :
        tracks = [pc |-> "called", df |-> df, movement |-> <<>>]

\* _calculate_storm_movement returns.
_calculate_storm_movement_returns ==
    /\ tracks.pc = "called"
    /\ tracks' = [tracks EXCEPT !.pc = "returned",
                                !.movement = _calculate_storm_movement(tracks.df)]
    /\ UNCHANGED <<crawlVars, fetch, parse, iem, download, resolve, matcher, bearing>>

TracksNext == _calculate_storm_movement_returns

\* ------------------------------------------------------ _calculate_bearing
\* Angles are floating-point numbers of degrees. A number below one degree
\* in size is kept to 1/Sub of a degree, a number from one degree on to the
\* whole degree: a small number has more digits than a sum near 360 can
\* keep. Angles are written in units of 1/Sub of a degree.
Sub == 4

\* The 360 of (bearing_deg + 360) % 360.
FullTurn == 360

Deg(n) == n * Sub

\* The floating-point angles between -180 and 180 degrees: what
\* np.degrees(np.arctan2(x, y)) can give for finite x and y.
Angles ==
    {v \in (0 - Deg(FullTurn \div 2))..Deg(FullTurn \div 2) :
        \/ v > 0 - Sub /\ v < Sub
        \/ v % Sub = 0}

\* Rounding of a sum of one degree or more: to the nearest whole degree,
\* a tie to the even one.
RoundToNearest(v) ==
    LET q == v \div Sub
        r == v % Sub
    IN  IF 2 * r < Sub THEN q * Sub
        ELSE IF 2 * r > Sub THEN (q + 1) * Sub
        ELSE IF q % 2 = 0 THEN q * Sub ELSE (q + 1) * Sub

\* a + b in floating point, for a sum of one degree or more.
FloatAdd(a, b) == RoundToNearest(a + b)

\* a % b in floating point for a >= 0 and b > 0: exact.
FloatMod(a, b) == a % b

\* _calculate_bearing with bearing_deg % 360 alone: the remainder of a
\* negative angle is the angle plus 360, rounded.
_calculate_bearing_mod_only(bearing_deg) ==
    IF bearing_deg < 0
    THEN FloatAdd(bearing_deg, Deg(FullTurn))
    ELSE FloatMod(bearing_deg, Deg(FullTurn))

\* _calculate_bearing from bearing_deg on: (bearing_deg + 360) % 360
_calculate_bearing(bearing_deg) ==
    FloatMod(FloatAdd(bearing_deg, Deg(FullTurn)), Deg(FullTurn))

BearingInit ==
    \E bearing_deg \in Angles :
        bearing = [pc |-> "called", bearing_deg |-> bearing_deg, direction |-> 0]

\* _calculate_bearing returns.
_calculate_bearing_returns ==
    /\ bearing.pc = "called"
    /\ bearing' = [bearing EXCEPT !.pc = "returned",
                                  !.direction = _calculate_bearing(bearing.bearing_deg)]
    /\ UNCHANGED <<crawlVars, fetch, parse, iem, download, resolve, matcher, tracks>>

BearingNext == _calculate_bearing_returns

\* -------------------------------------------- crawl_products_by_date_range
\* A datetime is a number of instants; a day has TicksPerDay of them.
TicksPerDay == 2
\* Last day of a date range.
MaxDay == 3
\* Greatest max_days_per_request.
MaxSpan == 3

Instants == 0..(MaxDay * TicksPerDay + TicksPerDay - 1)

\* timedelta(days=n)
timedelta(n) == n * TicksPerDay

\* strftime('%Y-%m-%d'): the day of a datetime.
strftime(t) == t \div TicksPerDay

Min(a, b) == IF a <= b THEN a ELSE b

IemInit ==
    \E start_date \in Instants, end_date \in Instants, max_days_per_request \in 1..MaxSpan :
        /\ start_date <= end_date
        /\ iem = [pc |-> "loop", start_date |-> start_date, end_date |-> end_date,
                  max_days_per_request |-> max_days_per_request,
                  current_date |-> start_date, requests |-> <<>>, dates_processed |-> 0]

\* One round of the while loop: the segment is searched with the days of
\* current_date and segment_end, its products are downloaded, and
\* current_date moves to the day after segment_end.
crawl_segment ==
    /\ iem.pc = "loop"
    /\ iem.current_date <= iem.end_date
    /\ LET segment_end == Min(iem.current_date + timedelta(iem.max_days_per_request - 1),
                              iem.end_date)
       IN  iem' = [iem EXCEPT
                     !.requests = Append(@, [sdate |-> strftime(iem.current_date),
                                             edate |-> strftime(segment_end)]),
                     !.current_date = segment_end + timedelta(1),
                     !.dates_processed = @ + 1]
    /\ UNCHANGED <<crawlVars, fetch, parse, download, resolve, matcher, tracks, bearing>>

\* The while loop ends: current_date is past end_date.
crawl_products_by_date_range_returns ==
    /\ iem.pc = "loop"
    /\ iem.current_date > iem.end_date
    /\ iem' = [iem EXCEPT !.pc = "returned"]
    /\ UNCHANGED <<crawlVars, fetch, parse, download, resolve, matcher, tracks, bearing>>

IemNext == crawl_segment \/ crawl_products_by_date_range_returns

CrawlNext ==
    \/ crawl_years_report
    \/ crawl_year_empty
    \/ crawl_year_listed
    \/ crawl_year_end
    \/ crawl_cyclone_begin
    \/ next_kind
    \/ crawl_cyclone_end
    \/ skip_existing
    \/ download_fetch_failed
    \/ download_fetched
    \/ download_open
    \/ download_write
    \/ count_result
    \/ new_run

InterruptNext ==
    \/ CrawlNext
    \/ KeyboardInterrupt

\* The crawler at rest, while fetch_page or get_year_cyclones is examined
\* alone.
CrawlOff ==
    /\ web = [rot |-> 0, shift |-> 0, flaky |-> NoUrl]
    /\ files = <<>>
    /\ stats = ZeroStats
    /\ run = 1
    /\ pc = "off"
    /\ yi = 1
    /\ ncyc = 0
    /\ ci = 0
    /\ advisories = <<>>
    /\ ki = 0
    /\ ui = 0
    /\ save_path = NoFile
    /\ content = Truncated
    /\ ret = FALSE
    /\ hist = NewHist(FALSE, {}, ZeroStats, 0, 0)

Init == CrawlInit /\ fetch = FetchIdle /\ parse = ParseIdle /\ UnitIdle

\* The crawl, run after run, with transport failures.
Spec == Init /\ [][CrawlNext]_vars

\* The crawl as the program schedules it: one thread that runs on while it
\* has a step to take (every request has a timeout).
FairSpec == Init /\ [][CrawlNext]_vars /\ WF_vars(CrawlNext)

\* The crawl with a keyboard interrupt at any point of a run; the process
\* exits after it.
InterruptSpec == Init /\ [][InterruptNext]_vars

FetchStart == CrawlOff /\ FetchInit /\ parse = ParseIdle /\ UnitIdle

\* One call of fetch_page on every site.
FetchSpec == FetchStart /\ [][FetchNext]_vars

ParseStart == CrawlOff /\ ParseInit /\ fetch = FetchIdle /\ UnitIdle

\* One call of get_year_cyclones on every year page.
ParseSpec == ParseStart /\ [][ParseNext]_vars

DownloadStart ==
    /\ CrawlOff /\ fetch = FetchIdle /\ parse = ParseIdle
    /\ DownloadInit
    /\ resolve = Idle /\ matcher = Idle /\ tracks = Idle /\ bearing = Idle /\ iem = Idle

\* One call of download_advisory on every body.
DownloadSpec == DownloadStart /\ [][DownloadNext]_vars

ResolveStart ==
    /\ CrawlOff /\ fetch = FetchIdle /\ parse = ParseIdle
    /\ ResolveInit
    /\ download = Idle /\ matcher = Idle /\ tracks = Idle /\ bearing = Idle /\ iem = Idle

\* One call of get_cyclone_advisories on every detail page.
ResolveSpec == ResolveStart /\ [][ResolveNext]_vars

MatcherStart ==
    /\ CrawlOff /\ fetch = FetchIdle /\ parse = ParseIdle
    /\ MatcherInit
    /\ download = Idle /\ resolve = Idle /\ tracks = Idle /\ bearing = Idle /\ iem = Idle

\* The matcher on every directory tree and track table.
MatcherSpec == MatcherStart /\ [][MatcherNext]_vars

TracksStart ==
    /\ CrawlOff /\ fetch = FetchIdle /\ parse = ParseIdle
    /\ TracksInit
    /\ download = Idle /\ resolve = Idle /\ matcher = Idle /\ bearing = Idle /\ iem = Idle

\* One call of _calculate_storm_movement on every track table.
TracksSpec == TracksStart /\ [][TracksNext]_vars

BearingStart ==
    /\ CrawlOff /\ fetch = FetchIdle /\ parse = ParseIdle
    /\ BearingInit
    /\ download = Idle /\ resolve = Idle /\ matcher = Idle /\ tracks = Idle /\ iem = Idle

\* One call of _calculate_bearing on every angle.
BearingSpec == BearingStart /\ [][BearingNext]_vars

IemStart ==
    /\ CrawlOff /\ fetch = FetchIdle /\ parse = ParseIdle
    /\ IemInit
    /\ download = Idle /\ resolve = Idle /\ matcher = Idle /\ tracks = Idle /\ bearing = Idle

\* One call of crawl_products_by_date_range on every date range; the loop
\* runs on while it has a round to take.
IemSpec == IemStart /\ [][IemNext]_vars /\ WF_vars(IemNext)

\* ---------------------------------------------------------------- claims
\* Every linked product of a resolved cyclone.
LinksOf(y, c) == {Url(y, c, k, i) : k \in {j \in KindIdx : Linked(c, j)}, i \in 1..MaxUrls}

\* C1: a second run over unchanged pages, after a run whose every fetch
\* succeeded, requests no advisory URL and leaves files_downloaded and
\* files_failed as they were.
C1_SecondRunRequestsNothing ==
    (run > 1 /\ hist.prevClean) =>
        /\ hist.requested = {}
        /\ stats.files_downloaded = hist.startStats.files_downloaded
        /\ stats.files_failed = hist.startStats.files_failed

\* C2: no file of the output tree is written twice: when download_advisory
\* opens a path for writing, no file exists at that path.
C2_NoFileWrittenTwice ==
    [][(pc = "open" /\ pc' = "write") => save_path \notin DOMAIN files]_vars

\* C3: after a keyboard interrupt at any point, every file of the output
\* tree holds the complete text of its product (none is empty or truncated).
C3_InterruptLeavesCompleteFiles ==
    pc = "interrupted" => \A p \in DOMAIN files : files[p] # Truncated

Processed ==
    /\ hist.seenYears = Years
    /\ \A y \in hist.listed : \A c \in 1..CyclonesOf(web, y) : <<y, c>> \in hist.seenCyc
    /\ \A yc \in hist.resolved : \A u \in LinksOf(yc[1], yc[2]) :
        \/ u \in hist.requested
        \/ u \in hist.skipped /\ SavePath(u) \in DOMAIN files

\* C6: no failed fetch stops crawl_years: every run reaches its final
\* report, having processed every later year, cyclone and advisory URL.
C6_SkipAndContinue ==
    /\ \A r \in 1..MaxRuns : <>(run = r /\ pc = "report")
    /\ [](pc = "report" => Processed)

\* C6 witness: a run reached its report, with files downloaded, although
\* the fetch of a detail page failed.
C6_Witness ==
    /\ pc = "report"
    /\ hist.seenCyc # hist.resolved
    /\ stats.files_downloaded > hist.startStats.files_downloaded

\* C8, as claimed: at a keyboard interrupt the driver reports the counters,
\* and files_downloaded equals the number of downloads that returned True.
C8_InterruptReportsSuccessCount ==
    pc = "interrupted" =>
        (hist.reported = stats /\ hist.reported.files_downloaded = hist.successes)

\* C8, amended: a keyboard interrupt always reaches the batch driver, which
\* reports the counters; it is never counted as a failed file; and
\* files_downloaded equals the number of downloads that returned True, or
\* one less when the interrupt arrives after download_advisory returned True
\* and before crawl_cyclone counted it.
C8_InterruptReportsCounters ==
    /\ hist.sigint => (pc = "interrupted" /\ hist.reported = stats)
    /\ pc = "interrupted" =>
        /\ hist.reported.files_downloaded =
             hist.successes - (IF hist.at = "returned" /\ ret THEN 1 ELSE 0)
        /\ hist.reported.files_failed =
             hist.falses - (IF hist.at = "returned" /\ ~ret THEN 1 ELSE 0)

\* C8 witness: the interrupt arrived between the return of a successful
\* download and its count.
C8_Witness == pc = "interrupted" /\ hist.at = "returned" /\ ret /\ hist.successes > 1

\* C10: when the year page cannot be fetched or yields no cyclone,
\* crawl_year returns 0 and leaves the counters and the output tree as
\* they were.
C10_EmptyYearChangesNothing ==
    [][(pc = "years" /\ pc' = "years" /\ yi' = yi + 1) =>
        (stats' = stats /\ files' = files /\ hist'.year_ret = 0)]_vars

\* C10 witness: crawl_year returned because the year page could not be
\* fetched, after files had been downloaded.
C10_Witness ==
    /\ pc = "years" /\ yi > 1
    /\ hist.emptyYear
    /\ (yi - 1) \notin hist.listed
    /\ stats.files_downloaded > 0


\* C5: fetch_page follows at most one meta-refresh hop: no call issues more
\* than two GET requests, and when the first page redirects to a second
\* page the call returns the body of the second page, whatever that body
\* holds.
C5_AtMostOneHop ==
    /\ Len(fetch.gets) <= 2
    /\ (fetch.pc = "done" /\ fetch.errAt = 0 /\ Len(fetch.gets) >= 2)
         => (fetch.result = "text" /\ fetch.body = fetch.gets[2])

\* C7: a GET that raises a transport error makes fetch_page return None; the
\* failing request is the last request of the call (the URL is not tried
\* again), also when the failing request is the meta-refresh target.
C7_TransportErrorReturnsNone ==
    fetch.errAt # 0 =>
        /\ fetch.pc = "done"
        /\ fetch.result = "None"
        /\ fetch.errAt = Len(fetch.gets)
        /\ fetch.gets[fetch.errAt] = fetch.url

\* The request of a meta-refresh target raised.
C7_Witness ==
    /\ fetch.pc = "done"
    /\ fetch.errAt = 2
    /\ fetch.site[fetch.gets[1]].target = fetch.gets[2]
    /\ fetch.result = "None"

\* C9: no two records returned by get_year_cyclones with the same basin have
\* the same id, in the new format and in the legacy formats.
C9_IdUniqueWithinBasin ==
    parse.pc = "returned" =>
        \A i, j \in 1..Len(parse.cyclones) :
            (i # j /\ parse.cyclones[i].basin = parse.cyclones[j].basin)
                => parse.cyclones[i].id # parse.cyclones[j].id


\* C11, as claimed: a successful call writes exactly one file: a body
\* without HTML markers verbatim at the destination path, the text of the
\* largest <pre> block of an HTML body at the destination path, and the
\* whole document under the path with the extension .html if and only if
\* the HTML body has no <pre> block.
C11_HtmlSuffixIffNoPre ==
    (download.pc = "returned" /\ download.ret) =>
        /\ Len(download.written) = 1
        /\ ~download.body.html =>
            (download.written[1].path = download.save_path /\ download.written[1].form = "verbatim")
        /\ (download.body.html /\ download.body.pres # <<>>) =>
            /\ download.written[1].path = download.save_path
            /\ download.written[1].form = "pre"
            /\ download.written[1].text = Largest(download.body.pres).text
        /\ (download.written[1].form = "html" /\ download.written[1].path.ext = "html")
            <=> (download.body.html /\ download.body.pres = <<>>)

\* C11, amended: a call that fails writes nothing; a successful call writes
\* exactly one file: a body without HTML markers verbatim at the destination
\* path; the stripped text of the largest <pre> block at the destination
\* path when that text is not empty; and the whole document under the
\* destination path with the extension .html if and only if the HTML body
\* has no <pre> block or the stripped text of its largest block is empty.
C11_HtmlSuffixIffNoPreText ==
    download.pc = "returned" =>
        /\ download.ret <=> download.body.got = "doc"
        /\ ~download.ret => download.written = <<>>
        /\ download.ret =>
            /\ Len(download.written) = 1
            /\ ~download.body.html =>
                (download.written[1].path = download.save_path /\ download.written[1].form = "verbatim")
            /\ (download.body.html /\ download.body.pres # <<>>
                  /\ Largest(download.body.pres).text # <<>>) =>
                /\ download.written[1].path = download.save_path
                /\ download.written[1].form = "pre"
                /\ download.written[1].text = Largest(download.body.pres).text
            /\ (download.written[1].form = "html"
                  /\ download.written[1].path = [download.save_path EXCEPT !.ext = "html"])
                <=> (download.body.html
                       /\ (download.body.pres = <<>> \/ Largest(download.body.pres).text = <<>>))
            /\ download.written[1].form = "html" => download.written[1].path.ext = "html"

\* C11 witness: the largest <pre> block of an HTML body is blank while a
\* smaller block has text, and the whole document was saved as .html.
C11_Witness ==
    /\ download.pc = "returned" /\ download.ret
    /\ download.body.html
    /\ Len(download.body.pres) = 2
    /\ Largest(download.body.pres).text = <<>>
    /\ \E i \in 1..2 : download.body.pres[i].text # <<>>
    /\ download.written[1].form = "html"


\* The number of entries of a list that are the URL.
Count(urls, u) == Cardinality({i \in 1..Len(urls) : urls[i] = u})

\* The URLs of the matching anchors of the call, in document order.
MatchingAnchors ==
    Collected(resolve.page, resolve.cyclone_id, resolve.late, resolve.format_type)

\* C12: the list of every product kind is in non-decreasing lexicographic
\* order and holds one entry per matching anchor (a URL linked twice
\* appears twice); a page that was fetched gives all four product kinds as
\* keys, and a failed fetch (None or an empty text) the empty mapping.
C12_SortedOnePerAnchor ==
    resolve.pc = "returned" =>
        /\ resolve.page.got # "doc" => resolve.advisories = <<>>
        /\ resolve.page.got = "doc" =>
            /\ DOMAIN resolve.advisories = KindIdx
            /\ \A k \in KindIdx :
                LET urls == resolve.advisories[k]
                IN  /\ \A i \in 1..(Len(urls) - 1) : LexLeq(urls[i], urls[i + 1])
                    /\ Len(urls) = Len(MatchingAnchors[k])
                    /\ \A h \in Hrefs :
                        Count(urls, FullUrl(h)) = Count(MatchingAnchors[k], FullUrl(h))

\* C12 witness: a product kind whose anchors are not in order on the page
\* and link one URL twice.
C12_Witness ==
    /\ resolve.pc = "returned" /\ resolve.page.got = "doc"
    /\ \E k \in KindIdx :
        /\ resolve.advisories[k] # MatchingAnchors[k]
        /\ \E h \in Hrefs : Count(resolve.advisories[k], FullUrl(h)) = 2


\* A track-table group is a candidate of a storm directory: same year, and
\* a cleaned name that contains the normalized name of the directory.
Candidate(g, storm_dir) ==
    /\ g \in GroupKeys(matcher.table)
    /\ g.year = storm_dir.year
    /\ Contains(g.name, _clean_storm_name(storm_name(storm_dir)))

GroupOf(row) == [sid |-> row.ibtracs_sid, name |-> row.ibtracs_name, year |-> row.year]

\* C13: every row of the matcher's output is a scanned storm directory with
\* an entry under forecast_advisory or forecast_discussion: one of
\* has_advisory and has_discussion is true on it, and a directory holding
\* only other products gives no row.
C13_RowsHaveForecastFiles ==
    /\ matcher.pc \in {"scanned", "matched"} =>
        \A i \in 1..Len(matcher.noaa_storms) :
            LET n == matcher.noaa_storms[i]
            IN  /\ n.has_advisory \/ n.has_discussion
                /\ n.has_advisory <=> n.dir.adv = "files"
                /\ n.has_discussion <=> n.dir.disc = "files"
    /\ matcher.pc = "matched" =>
        \A i \in 1..Len(matcher.matched) :
            LET row == matcher.matched[i]
            IN  /\ row.has_advisory \/ row.has_discussion
                /\ \E j \in 1..Len(matcher.tree) : matcher.tree[j] = row.noaa
                /\ row.has_advisory <=> row.noaa.adv = "files"
                /\ row.has_discussion <=> row.noaa.disc = "files"

\* C13 witness: a row is matched while a directory that holds only other
\* products, and has a candidate in the track table, gives none.
C13_Witness ==
    /\ matcher.pc = "matched"
    /\ Len(matcher.matched) = 1
    /\ \E j \in 1..Len(matcher.tree) :
        LET d == matcher.tree[j]
        IN  /\ d.adv = "absent" /\ d.disc = "absent" /\ d.others
            /\ \E g \in GroupKeys(matcher.table) : Candidate(g, d)

\* C14: every discovered storm gives at most one row, and gives one exactly
\* when a group of the track table has its year and a cleaned name that
\* contains its normalized name; the group of the row passes that test.
C14_RowIffCandidate ==
    matcher.pc = "matched" =>
        /\ Len(matcher.matched) =
             Cardinality({i \in 1..Len(matcher.noaa_storms) :
                            \E g \in GroupKeys(matcher.table) :
                                Candidate(g, matcher.noaa_storms[i].dir)})
        /\ \A d \in StormDirs :
             Cardinality({i \in 1..Len(matcher.matched) : matcher.matched[i].noaa = d})
               <= Cardinality({i \in 1..Len(matcher.noaa_storms) : matcher.noaa_storms[i].dir = d})
        /\ \A i \in 1..Len(matcher.matched) :
             /\ matcher.matched[i].year = matcher.matched[i].noaa.year
             /\ Candidate(GroupOf(matcher.matched[i]), matcher.matched[i].noaa)

\* C14 witness: a discovered storm has a track storm of its name in another
\* year only and gives no row, while another discovered storm is matched.
C14_Witness ==
    /\ matcher.pc = "matched"
    /\ Len(matcher.noaa_storms) = 2
    /\ Len(matcher.matched) = 1
    /\ \E i \in 1..2 :
        LET d == matcher.noaa_storms[i].dir
        IN  /\ \E g \in GroupKeys(matcher.table) :
                 g.year # d.year /\ Contains(g.name, _clean_storm_name(storm_name(d)))
            /\ ~\E g \in GroupKeys(matcher.table) : Candidate(g, d)

\* The groups in the order of their first rows in the track table.
RECURSIVE FirstSeen(_, _)
FirstSeen(table, keys) ==
    IF table = <<>> THEN <<>>
    ELSE LET row == Head(table)
             key == [sid |-> row.sid, name |-> name_clean(row), year |-> row.year]
         IN  IF key \in keys
             THEN <<key>> \o FirstSeen(Tail(table), keys \ {key})
             ELSE FirstSeen(Tail(table), keys)

\* C15: of several candidates of a discovered storm, match_storms takes the
\* one whose rows come first in the track table as supplied.
C15_FirstInTableOrder ==
    matcher.pc = "matched" =>
        \A i \in 1..Len(matcher.matched) :
            LET row == matcher.matched[i]
                inOrder == SelectSeq(FirstSeen(matcher.table, GroupKeys(matcher.table)),
                                     LAMBDA g : Candidate(g, row.noaa))
            IN  GroupOf(row) = inOrder[1]


\* The fixes of the storm of a row are all located and have times that
\* parse and differ.
CleanStorm(df, row) ==
    \A i, j \in {n \in 1..Len(df) : df[n].sid = df[row].sid} :
        /\ df[i].located /\ df[i].datetime # NaT
        /\ i # j => df[i].datetime # df[j].datetime

\* The fix of the same storm that immediately precedes the row in time, 0
\* when the row is the earliest.
Preceding(df, row) ==
    LET earlier == {i \in 1..Len(df) : df[i].sid = df[row].sid /\ df[i].datetime < df[row].datetime}
    IN  IF earlier = {} THEN 0
        ELSE CHOOSE i \in earlier : \A j \in earlier : df[j].datetime <= df[i].datetime

\* C16: whatever the order of the rows, the speed and direction of a fix
\* are computed from that fix and the fix of its storm that immediately
\* precedes it in time, and the fix without them is the earliest of its
\* storm.
C16_MovementFromPrecedingFix ==
    tracks.pc = "returned" =>
        \A row \in 1..Len(tracks.df) :
            CleanStorm(tracks.df, row) =>
                tracks.movement[row] =
                    IF Preceding(tracks.df, row) = 0 THEN NoMovement
                    ELSE [prev |-> Preceding(tracks.df, row), curr |-> row]


\* C17: the direction _calculate_bearing returns is at least 0 and less
\* than 360 degrees, never 360 and never negative.
C17_BearingInRange ==
    bearing.pc = "returned" =>
        (bearing.direction >= 0 /\ bearing.direction < Deg(FullTurn))

\* C17 witness: a negative angle so small that adding 360 gives 360 exactly
\* was mapped to 0.
C17_Witness ==
    /\ bearing.pc = "returned"
    /\ bearing.bearing_deg < 0
    /\ FloatAdd(bearing.bearing_deg, Deg(FullTurn)) = Deg(FullTurn)
    /\ bearing.direction = 0


\* The link matches one of the four legacy patterns.
IsCycloneLink(link) == \E n \in 1..4 : Matches(n, link)

\* C18: the list never mixes formats: when a comment with a cyclone index
\* is immediately followed by an anchor, the records are those of the
\* comments, all of format new, and no legacy link of the page is among
\* them; otherwise every record is of format legacy with the id
\* legacy_{year}_{lower-case name}.
C18_FormatsNeverMixed ==
    parse.pc = "returned" =>
        IF \E i \in 1..Len(parse.page.marks) :
              parse.page.marks[i].id # NoId /\ parse.page.marks[i].next # NoAnchor
        THEN /\ parse.cyclones # <<>>
             /\ Len(parse.cyclones) <= Len(parse.page.marks)
             /\ \A i \in 1..Len(parse.cyclones) :
                  /\ parse.cyclones[i].format = "new"
                  /\ \E j \in 1..Len(parse.page.marks) :
                       parse.cyclones[i].url = parse.page.marks[j].next.href
        ELSE \A i \in 1..Len(parse.cyclones) :
                  /\ parse.cyclones[i].format = "legacy"
                  /\ \E link \in Links :
                       /\ IsCycloneLink(link)
                       /\ parse.cyclones[i].id = <<"legacy", parse.year, Lower(link.name)>>
                       /\ parse.cyclones[i].url = <<link.yr, link.name, link.tail>>

\* C18 witness: a page with a comment record and a legacy cyclone link in a
\* table cell gave the comment records only.
C18_Witness ==
    /\ parse.pc = "returned"
    /\ parse.cyclones # <<>>
    /\ parse.cyclones[1].format = "new"
    /\ Legacy(parse.year, parse.page) # <<>>

\* The basin C19 gives a header text.
C19_BasinOfHeader(text) ==
    CASE text = "atlantic" -> "al"
      [] text = "central pacific" -> "cp"
      [] text \in {"pacific", "eastern pacific"} -> "ep"
      [] OTHER -> "al"

\* C19: in the table-inference case a column whose header holds
\* 'atlantic' is Atlantic, 'central pacific' C_Pacific, any other 'pacific'
\* E_Pacific, and every cyclone link of column i carries the basin of
\* column i.
C19_ColumnBasinFollowsHeader ==
    (/\ parse.pc = "returned"
     /\ parse.page.marks = <<>>
     /\ Len(parse.page.ths) = Len(parse.page.tds)
     /\ \A i \in 1..Len(parse.page.ths) :
          parse.page.ths[i].id = "" /\ parse.page.ths[i].text # "storms"
     /\ \A i \in 1..Len(parse.page.tds) : parse.page.tds[i].headers = "") =>
        \A r \in 1..Len(parse.cyclones) :
            \E i \in 1..Len(parse.page.tds) :
                /\ \E n \in 1..Len(parse.page.tds[i].links) :
                     LET link == parse.page.tds[i].links[n]
                     IN  IsCycloneLink(link)
                         /\ parse.cyclones[r].url = <<link.yr, link.name, link.tail>>
                /\ parse.cyclones[r].basin_code = C19_BasinOfHeader(parse.page.ths[i].text)
                /\ parse.cyclones[r].basin = BASIN_NAMES(C19_BasinOfHeader(parse.page.ths[i].text))

\* The basin C20 gives the cell i: that of the most recent cell up to i
\* whose headers attribute names a basin, Atlantic when there is none.
C20_CurrentBasin(tds, i) ==
    LET known == {j \in 1..i : tds[j].headers \in BasinCodes}
    IN  IF known = {} THEN "al"
        ELSE tds[CHOOSE j \in known : \A m \in known : m <= j].headers

\* C20: in the headers case every cyclone link of every cell, with or
\* without a headers attribute, is discovered, and the record of a name
\* that is linked in one cell only carries the basin current at that cell.
C20_HeadersCarryForward ==
    (/\ parse.pc = "returned"
     /\ parse.page.marks = <<>>
     /\ \E i \in 1..Len(parse.page.tds) : parse.page.tds[i].headers # "") =>
        \A i \in 1..Len(parse.page.tds) :
            \A n \in 1..Len(parse.page.tds[i].links) :
                LET link == parse.page.tds[i].links[n]
                IN  IsCycloneLink(link) =>
                      \E r \in 1..Len(parse.cyclones) :
                          /\ parse.cyclones[r].id = <<"legacy", parse.year, Lower(link.name)>>
                          /\ (\A j \in 1..Len(parse.page.tds) :
                                 j # i => \A m \in 1..Len(parse.page.tds[j].links) :
                                            parse.page.tds[j].links[m].name # link.name)
                               => parse.cyclones[r].basin_code = C20_CurrentBasin(parse.page.tds, i)


\* The URLs the first legacy strategy (file names carrying the id) collects
\* for a product kind on the page of the call, in document order.
ById(k) ==
    Collect(resolve.page.links,
            {h \in Hrefs : LegacyIdMatch(h, resolve.real_cyclone_id, DATA_TYPES[k])})

\* The URLs the directory-name fallback collects for a product kind.
ByDir(k) ==
    Collect(resolve.page.links, {h \in Hrefs : LegacyDirMatch(h, DATA_TYPES[k])})

\* C21: in the legacy resolver the directory-name fallback contributes to
\* the result if and only if the id-based strategy found no URL for any of
\* the four product kinds, so the result holds the URLs of exactly one of
\* the two strategies.
C21_FallbackIffNothingById ==
    (resolve.pc = "returned" /\ resolve.page.got = "doc" /\ resolve.format_type = "legacy") =>
        IF \E k \in KindIdx : ById(k) # <<>>
        THEN \A k \in KindIdx : resolve.advisories[k] = sorted(ById(k))
        ELSE \A k \in KindIdx : resolve.advisories[k] = sorted(ByDir(k))

\* C21 witness: a page with an anchor of each strategy; the result holds
\* the id-based URL and leaves the directory-named one out.
C21_Witness ==
    /\ resolve.pc = "returned" /\ resolve.page.got = "doc" /\ resolve.format_type = "legacy"
    /\ \E k \in KindIdx : ById(k) # <<>>
    /\ \E k \in KindIdx : ByDir(k) # <<>> /\ resolve.advisories[k] # sorted(ById(k) \o ByDir(k))

\* The ids of the places of the page where the id is followed by the four
\* digits of the year of the call.
IdsOfTheYear ==
    LET ms == IdMatches(resolve.page)
    IN  {ms[i].id : i \in {j \in 1..Len(ms) : ms[j].yr = "yyyy"}}

\* C22: in the legacy resolver the id used to match the file names is the
\* id of a place in the page body where it is followed by the four digits
\* of the year of the call, whatever the legacy year; when there is no such
\* place the id of the call is kept.
C22_RealIdFollowedByYear ==
    (resolve.pc = "returned" /\ resolve.page.got = "doc" /\ resolve.format_type = "legacy") =>
        IF IdsOfTheYear # {}
        THEN resolve.real_cyclone_id \in IdsOfTheYear
        ELSE resolve.real_cyclone_id = resolve.cyclone_id


\* C23: extract_text_from_html returns the (stripped) text of the <pre>
\* block with the greatest character count among the <pre> blocks of the
\* document, the first such block when several tie, and returns None exactly
\* when the document has no <pre> block.
C23_LargestPreFirstOnTie ==
    download.pc = "extracted" =>
        LET pres == download.body.pres
        IN  /\ download.text_content.none <=> pres = <<>>
            /\ pres # <<>> =>
                \E i \in 1..Len(pres) :
                    /\ \A j \in 1..Len(pres) : PreLen(pres[j]) <= PreLen(pres[i])
                    /\ \A j \in 1..(i - 1) : PreLen(pres[j]) < PreLen(pres[i])
                    /\ download.text_content.text = pres[i].text

\* C23 witness: two <pre> blocks of the same character count and different
\* texts; the text of the first one is returned.
C23_Witness ==
    /\ download.pc = "extracted"
    /\ Len(download.body.pres) = 2
    /\ PreLen(download.body.pres[1]) = PreLen(download.body.pres[2])
    /\ download.body.pres[1].text # download.body.pres[2].text
    /\ download.text_content = [none |-> FALSE, text |-> download.body.pres[1].text]


\* The category prefixes, in upper case.
KnownPrefixes ==
    {<<<<"POTENTIAL">>, <<"TROPICAL">>, <<"CYCLONE">>>>, <<<<"TROPICAL">>, <<"DEPRESSION">>>>,
     <<<<"TROPICAL">>, <<"STORM">>>>, <<<<"TROPICAL">>, <<"CYCLONE">>>>, <<<<"HURRICANE">>>>}

\* The name starts with the prefix, in any letter case, and a token follows.
StartsWith(name, prefix) ==
    /\ Len(name) > Len(prefix)
    /\ \A i \in 1..Len(prefix) : UpperStr(name[i]) = prefix[i]

\* C24, as claimed: a display name made of a known category prefix, in any
\* letter case, and one or more tokens maps to the first token after the
\* prefix in upper case; a name without a known prefix maps to its first
\* token in upper case.
C24_FirstTokenAfterPrefix ==
    (matcher.pc = "cleaned" /\ matcher.name # <<>>) =>
        IF \E p \in KnownPrefixes : StartsWith(matcher.name, p)
        THEN \A p \in KnownPrefixes :
                StartsWith(matcher.name, p) => matcher.cleaned = UpperStr(matcher.name[Len(p) + 1])
        ELSE matcher.cleaned = UpperStr(matcher.name[1])

\* The number of leading tokens the substitutions remove: the prefixes are
\* looked for in the order Potential Tropical Cyclone, Tropical
\* Depression/Storm/Cyclone, Hurricane, each at the start of what is left.
C24_Removed(name) ==
    LET at(k, p) == StartsWith(SubSeq(name, k + 1, Len(name)), p)
        k1 == IF at(0, <<<<"POTENTIAL">>, <<"TROPICAL">>, <<"CYCLONE">>>>) THEN 3 ELSE 0
        k2 == IF \E w \in {"DEPRESSION", "STORM", "CYCLONE"} : at(k1, <<<<"TROPICAL">>, <<w>>>>)
              THEN k1 + 2 ELSE k1
    IN  IF at(k2, <<<<"HURRICANE">>>>) THEN k2 + 1 ELSE k2

\* C24, amended: the name maps to the first token, in upper case, of what
\* is left once the prefixes are removed in that order; that is the first
\* token after the prefix unless the tokens after it start with a prefix of
\* a later substitution.
C24_FirstTokenAfterPrefixes ==
    (matcher.pc = "cleaned" /\ matcher.name # <<>>) =>
        /\ matcher.cleaned = UpperStr(matcher.name[C24_Removed(matcher.name) + 1])
        /\ \A p \in KnownPrefixes :
            (/\ StartsWith(matcher.name, p)
             /\ \A q \in KnownPrefixes :
                   ~StartsWith(SubSeq(matcher.name, Len(p) + 1, Len(matcher.name)), q))
            => matcher.cleaned = UpperStr(matcher.name[Len(p) + 1])
        /\ (\A p \in KnownPrefixes : ~StartsWith(matcher.name, p))
            => matcher.cleaned = UpperStr(matcher.name[1])

\* C24 witness: "tropical Storm hurricane B" maps to "B", the token after
\* the second prefix.
C24_Witness ==
    /\ matcher.pc = "cleaned"
    /\ matcher.name = <<<<"tropical">>, <<"Storm">>, <<"hurricane">>, <<"B">>>>
    /\ matcher.cleaned = <<"B">>


\* A fix with a missing latitude, longitude or timestamp.
Missing(fix) == ~fix.located \/ fix.datetime = NaT

\* The fixes of the storm of a row in the order of time, as rows of the
\* table.
StormOrder(df, row) == SortByTime(df, Masked(df, df[row].sid))

\* The rows of every storm stand in the table in the order of time.
TimeOrdered(df) == \A row \in 1..Len(df) : StormOrder(df, row) = Masked(df, df[row].sid)

\* C25: a fix other than the first of its storm has no speed and no
\* direction if and only if the time elapsed since the preceding fix of the
\* storm is zero or negative or one of the two fixes has a missing latitude,
\* longitude or timestamp; otherwise it has both.
C25_NullIffNoElapsedOrMissing ==
    tracks.pc = "returned" =>
        \A row \in 1..Len(tracks.df) :
            LET df == tracks.df
                storm_data == StormOrder(df, row)
                p == PositionIn(storm_data, row)
            IN  p > 1 =>
                    LET prev == storm_data[p - 1]
                    IN  (tracks.movement[row] = NoMovement)
                            <=> \/ Missing(df[prev]) \/ Missing(df[row])
                                \/ df[row].datetime - df[prev].datetime <= 0

\* C26, as claimed, on a table whose rows stand in the order of time: when
\* a fix of a storm has a missing value, every other fix of the storm but
\* the first, at a later time than the fix before it, has a speed and a
\* direction.
C26_OnlyTheMissingFixIsNull ==
    (tracks.pc = "returned" /\ TimeOrdered(tracks.df)) =>
        \A row \in 1..Len(tracks.df) :
            LET df == tracks.df
                storm_data == StormOrder(df, row)
                p == PositionIn(storm_data, row)
            IN  (/\ p > 1
                 /\ ~Missing(df[row])
                 /\ \E i \in 1..Len(storm_data) : Missing(df[storm_data[i]])
                 /\ df[storm_data[p - 1]].datetime < df[row].datetime)
                => tracks.movement[row] # NoMovement

\* C26, amended: a fix with a missing value leaves without speed and
\* direction the steps it takes part in (from the fix before it and to the
\* fix after it in the order of time) and no other: every step between two
\* fixes without a missing value and with a positive elapsed time is
\* computed and stored on a row of the storm, and the rows of the storm
\* without speed and direction are as many as the other steps plus one.
C26_MissingFixNullsItsStepsOnly ==
    tracks.pc = "returned" =>
        \A row \in 1..Len(tracks.df) :
            LET df == tracks.df
                idx == Masked(df, df[row].sid)
                storm_data == StormOrder(df, row)
                Computed(q) == /\ ~Missing(df[storm_data[q - 1]]) /\ ~Missing(df[storm_data[q]])
                               /\ df[storm_data[q]].datetime - df[storm_data[q - 1]].datetime > 0
                steps == 2..Len(storm_data)
            IN  /\ \A q \in steps :
                    Computed(q) <=>
                        \E i \in 1..Len(idx) :
                            tracks.movement[idx[i]] = [prev |-> storm_data[q - 1], curr |-> storm_data[q]]
                /\ Cardinality({i \in 1..Len(idx) : tracks.movement[idx[i]] = NoMovement})
                      = 1 + Cardinality({q \in steps : ~Computed(q)})

\* C26 witness: a storm of three fixes whose first fix has no position; the
\* step to the second fix has no speed and the step to the third is
\* computed.
C26_Witness ==
    /\ tracks.pc = "returned"
    /\ Len(tracks.df) = 3
    /\ \A i \in 1..3 : tracks.df[i].sid = 1 /\ tracks.df[i].datetime = i
    /\ ~tracks.df[1].located /\ tracks.df[2].located /\ tracks.df[3].located
    /\ tracks.movement = <<NoMovement, NoMovement, [prev |-> 2, curr |-> 3]>>


\* The counters of the crawler agree with the calls of download_advisory of
\* the crawler that have returned and been counted: files_downloaded the
\* calls that returned True, files_failed those that returned False, their
\* sum the calls made; a URL skipped was not handed to download_advisory;
\* and the total crawl_year is about to return is the growth of
\* files_downloaded since it was called.
C27_CountersAgree ==
    /\ pc \in {"years", "cyclones", "urls", "report"} =>
        /\ stats.files_downloaded = hist.successes
        /\ stats.files_failed = hist.falses
        /\ stats.files_downloaded + stats.files_failed = Cardinality(hist.requested)
    /\ hist.skipped \cap hist.requested = {}
    /\ pc \in {"cyclones", "urls"} => hist.year_ret = stats.files_downloaded - hist.yearStart

\* A step of one crawler decreases no counter, and a skip changes none.
C27_CountersGrow ==
    run' = run =>
        /\ stats'.years_processed >= stats.years_processed
        /\ stats'.cyclones_processed >= stats.cyclones_processed
        /\ stats'.files_downloaded >= stats.files_downloaded
        /\ stats'.files_failed >= stats.files_failed
        /\ hist'.skipped # hist.skipped => stats' = stats

\* C27: on one crawler files_downloaded + files_failed is the number of
\* download_advisory invocations, a file skipped because it exists counts
\* in neither, no counter ever decreases, and crawl_year returns the growth
\* of files_downloaded during the call.
C27_CountersMatchDownloads == [](C27_CountersAgree) /\ [][C27_CountersGrow]_vars

\* C27 witness: a crawler that has skipped an existing file, downloaded
\* another and failed on a third reports at the end of its run.
C27_Witness ==
    /\ pc = "report"
    /\ hist.skipped # {}
    /\ stats.files_downloaded > 0
    /\ stats.files_failed > 0


\* C28: a URL crawl_cyclone skips because its destination path exists was
\* downloaded to that path before: within a cyclone and a product kind two
\* different URLs never have the same destination path.
C28_SkippedWasSaved ==
    resolve.pc = "crawled" =>
        \A k \in DOMAIN resolve.log :
            LET log == resolve.log[k]
            IN  /\ \A i \in 1..Len(log) :
                    log[i].skipped =>
                        \E j \in 1..(i - 1) :
                            /\ ~log[j].skipped
                            /\ log[j].save_path = log[i].save_path
                            /\ log[j].url = log[i].url
                /\ \A i, j \in 1..Len(log) :
                    log[i].url # log[j].url => log[i].save_path # log[j].save_path


\* The days of the range, from the day of start_date to the day of end_date.
DaysOfRange == strftime(iem.start_date)..strftime(iem.end_date)

\* C29, termination: a call with start_date <= end_date and
\* max_days_per_request >= 1 returns.
C29_Terminates == <>(iem.pc = "returned")

\* C29: when the call has returned, the segments requested are contiguous
\* and do not overlap, each is at most max_days_per_request days long,
\* together they cover every day from start_date to end_date exactly once,
\* and dates_processed has grown by the number of segments.
C29_SegmentsCoverRange ==
    iem.pc = "returned" =>
        LET reqs == iem.requests
        IN  /\ \A i \in 1..Len(reqs) :
                /\ reqs[i].sdate <= reqs[i].edate
                /\ reqs[i].edate - reqs[i].sdate + 1 <= iem.max_days_per_request
            /\ \A i \in 1..(Len(reqs) - 1) : reqs[i + 1].sdate = reqs[i].edate + 1
            /\ \A d \in DaysOfRange :
                Cardinality({i \in 1..Len(reqs) : reqs[i].sdate <= d /\ d <= reqs[i].edate}) = 1
            /\ \A i \in 1..Len(reqs) : {reqs[i].sdate, reqs[i].edate} \subseteq DaysOfRange
            /\ iem.dates_processed = Len(reqs)


\* C30: the output of extract_tracks holds exactly one row for every fix of
\* the track table whose storm id was matched, and no other row, also when
\* several rows of the matched-storm table carry the same ibtracs_sid.
C30_OneRowPerFix ==
    matcher.pc = "extracted" =>
        LET matched_sids == {matcher.matched[j].ibtracs_sid : j \in 1..Len(matcher.matched)}
            out == matcher.track_data
        IN  /\ \A i \in 1..Len(matcher.table) :
                Cardinality({n \in 1..Len(out) : out[n].fix = i})
                    = IF matcher.table[i].sid \in matched_sids THEN 1 ELSE 0
            /\ \A n \in 1..Len(out) : out[n].sid = matcher.table[out[n].fix].sid
====
